---- MODULE Spec2Model ----
(***************************************************************************)
(* Model of the opcode chunking engine (src-tauri/src/chunking): the       *)
(* content-addressed chunk store, the error-log store and the dual         *)
(* timeline snapshot subsystem that drives a Git working copy.             *)
(*                                                                         *)
(* Every public entry point runs under the host mutex, so each call is one *)
(* atomic action.  A call that can fail part-way takes the step at which   *)
(* the failure strikes as an input (`fail`); the effects of the steps      *)
(* before it stay, exactly as the `?` early returns of the code leave them.*)
(***************************************************************************)
EXTENDS Integers, FiniteSets, Sequences, TLC

VARIABLES
    chunks,          \* rows of table chunks
    nextChunkId,     \* AUTOINCREMENT counter of chunks.id
    chunk_relationships,  \* rows of table chunk_relationships
    nextRelationshipId,   \* AUTOINCREMENT counter of chunk_relationships.id
    business_rules,       \* rows of table business_rules
    nextRuleId,           \* AUTOINCREMENT counter of business_rules.id
    database,             \* the SQLite file as init_chunk_database finds it: tables, indexes
    error_logs,      \* rows of table error_logs
    nextErrorId,     \* AUTOINCREMENT counter of error_logs.id
    logged,          \* history: log_error calls per key since the key last had no unresolved row
    snapshots,       \* rows of table snapshots
    nextSnapshotId,  \* AUTOINCREMENT counter of snapshots.id
    git,             \* per project: the Git repository and working copy at project_path
    defaultBranch,   \* environment: branch name Repository::init gives HEAD
    foreignKeys,     \* environment: whether the SQLite build enforces FOREIGN KEY clauses
    clock,           \* Utc::now(), in ticks
    failures,        \* number of injected step failures so far
    edits,           \* number of working-copy edits so far
    host,            \* the host's mutex and the calls in progress in its worker contexts
    last             \* the last call: its arguments and what it returned

vars == <<chunks, nextChunkId, chunk_relationships, nextRelationshipId, business_rules,
          nextRuleId, database, error_logs, nextErrorId, logged, snapshots,
          nextSnapshotId, git, defaultBranch, foreignKeys, clock, failures, edits,
          host, last>>

chunkVars == <<chunks, nextChunkId>>
relVars   == <<chunk_relationships, nextRelationshipId>>
ruleVars  == <<business_rules, nextRuleId>>
dbVars    == <<database>>
errorVars == <<error_logs, nextErrorId, logged>>
snapVars  == <<snapshots, nextSnapshotId, git, failures, edits>>
\* What a call that runs to its end in one step leaves alone: the environment
\* and the host's tasks
envVars   == <<defaultBranch, foreignKeys, host>>

----------------------------------------------------------------------------
(* Bounds of the model *)

MaxClock == 4        \* calls that read the clock
MaxCommits == 5      \* commits in all repositories together, root commits included
MaxEdits == 1        \* edits of the working copies
MaxFailures == 1     \* injected step failures per behaviour

(* Option::None of an integer column (ids start at 1) *)
NULL == 0
(* Option::None of a text column *)
NoText == "NULL"

\* The host's worker contexts; no task holds a free mutex
Tasks == {"t1", "t2"}
NoTask == "none"
IdleTask == [pc |-> "idle", op |-> NoText, arg |-> NULL, rows |-> {}]

Projects == {"p1", "p2"}

Max(S) == CHOOSE x \in S : \A y \in S : y <= x

----------------------------------------------------------------------------
(* Chunk store: storage.rs *)

FileContents == {"fn a() {}", "fn b() {}"}

\* serialize_ast_node over the tree of a one-line function item: kind and rows
\* of each node, leaves repeat their kind; the identifier's text is not written
AstOfFunctionItem ==
    "source_file:0-0\n  function_item:0-0\n    fn:0-0 [fn]\n    identifier:0-0 [identifier]\n    parameters:0-0\n      (:0-0 [(]\n      ):0-0 [)]\n    block:0-0\n      {:0-0 [{]\n      }:0-0 [}]\n"

\* Sha256::new() ; update(content) ; finalize(): the digest, as the leading
\* four bytes (eight half-bytes) of the real SHA-256 of each text the model stores
Sha256(content) ==
    CASE content = "fn a() {}" -> <<15, 14, 0, 5, 11, 5, 14, 14>>
      [] content = "fn b() {}" -> <<5, 1, 6, 8, 12, 5, 4, 15>>
      [] content = AstOfFunctionItem -> <<11, 5, 1, 4, 2, 7, 1, 1>>
      [] content = "[package]" -> <<7, 0, 10, 12, 15, 0, 0, 5>>
      [] content = "{}" -> <<4, 4, 1, 3, 6, 15, 10, 3>>
      [] content = "# Dependencies (0)\n\n# Function Calls (1)\ncall: a\n"
            -> <<14, 2, 8, 11, 2, 2, 14, 1>>
      [] content = "# Dependencies (0)\n\n# Function Calls (1)\ncall: b\n"
            -> <<13, 12, 12, 8, 4, 5, 12, 15>>
      [] content = "# Dependencies (0)\n\n# Function Calls (0)\n"
            -> <<10, 11, 3, 13, 10, 9, 3, 6>>
      [] content = "# Test File: test/config.json\n# Test Functions: 0\n\n\n# Expectations: 0\n"
            -> <<13, 10, 14, 3, 2, 10, 5, 11>>
      [] content = "# Dependencies (2)\nimport: a\nimport: b\n\n# Function Calls (2)\ncall: f\ncall: g\n"
            -> <<5, 4, 14, 13, 8, 13, 3, 9>>
      [] content = "# Dependencies (2)\nimport: a\nimport: b\n\n# Function Calls (2)\ncall: g\ncall: f\n"
            -> <<7, 0, 11, 12, 6, 1, 13, 8>>
      [] content = "# Dependencies (2)\nimport: b\nimport: a\n\n# Function Calls (2)\ncall: f\ncall: g\n"
            -> <<6, 10, 8, 9, 5, 10, 14, 8>>
      [] content = "# Dependencies (2)\nimport: b\nimport: a\n\n# Function Calls (2)\ncall: g\ncall: f\n"
            -> <<6, 8, 1, 1, 8, 0, 11, 8>>
      [] content = "# Dependencies (1)\nimport: a\n\n# Function Calls (1)\ncall: h\n"
            -> <<0, 2, 11, 1, 9, 8, 6, 10>>
      [] content = "Commit: p1:1\n" -> <<0, 15, 6, 6, 13, 10, 15, 0>>
      [] content = "Commit: p1:2\n" -> <<12, 14, 0, 11, 4, 6, 4, 14>>
      [] content = "Commit: p1:3\n" -> <<0, 2, 6, 14, 0, 3, 8, 1>>
      [] content = "Commit: p1:4\n" -> <<3, 12, 1, 2, 3, 6, 3, 3>>
      [] content = "Commit: p1:5\n" -> <<14, 0, 12, 9, 0, 7, 0, 12>>
      [] content = "Commit: p1:6\n" -> <<9, 0, 6, 8, 5, 2, 11, 11>>

\* format!("{:x}", digest) writes each half-byte as one of 0-9a-f;
\* "{:X}" would write 0-9A-F
Hex(digest, digits) ==
    LET d(i) == digits[digest[i] + 1]
    IN  d(1) \o d(2) \o d(3) \o d(4) \o d(5) \o d(6) \o d(7) \o d(8)

UpperHexHash(content) ==
    Hex(Sha256(content),
        <<"0", "1", "2", "3", "4", "5", "6", "7", "8", "9", "A", "B", "C", "D", "E", "F">>)

\* calculate_content_hash(content): SHA-256 in lowercase hex
calculate_content_hash(content) ==
    Hex(Sha256(content),
        <<"0", "1", "2", "3", "4", "5", "6", "7", "8", "9", "a", "b", "c", "d", "e", "f">>)

ChunkTypes == {"raw_source", "ast"}
FilePaths == {"a.rs", "b.rs"}
Metadatas == {NoText, "{}"}
SnapshotIdArgs == {NULL, 1}

\* The Chunk values the extractors build: the hash is computed from the content.
ChunkInputs ==
    [project_path : Projects, chunk_type : ChunkTypes, file_path : FilePaths,
     entity_name : {NoText}, content : FileContents, metadata : Metadatas]

ChunkOf(c) == c @@ [content_hash |-> calculate_content_hash(c.content)]

UpdateChunkRowsAndOwner(rows, chunk, snapshot_id, now) ==
    {IF r.content_hash = chunk.content_hash
        THEN [r EXCEPT !.updated_at = now, !.metadata = chunk.metadata,
                       !.snapshot_id = snapshot_id,
                       !.project_path = chunk.project_path, !.file_path = chunk.file_path]
        ELSE r : r \in rows}

\* UPDATE chunks SET updated_at, metadata, snapshot_id WHERE content_hash = ?4
UpdateChunkRows(rows, chunk, snapshot_id, now) ==
    {IF r.content_hash = chunk.content_hash
        THEN [r EXCEPT !.updated_at = now, !.metadata = chunk.metadata,
                       !.snapshot_id = snapshot_id]
        ELSE r : r \in rows}

NoConstraint(rows, chunk) == FALSE

\* content_hash TEXT NOT NULL UNIQUE: would the INSERT break the constraint?
UniqueViolation(rows, chunk) == \E r \in rows : r.content_hash = chunk.content_hash

\* INSERT INTO chunks (...) VALUES (...)
InsertChunkRow(rows, id, chunk, snapshot_id, now) ==
    rows \cup {[id |-> id,
                project_path |-> chunk.project_path,
                chunk_type |-> chunk.chunk_type,
                file_path |-> chunk.file_path,
                entity_name |-> chunk.entity_name,
                content |-> chunk.content,
                content_hash |-> chunk.content_hash,
                metadata |-> chunk.metadata,
                snapshot_id |-> snapshot_id,
                created_at |-> now,
                updated_at |-> now]}

LookupByHashAndProject(rows, chunk) ==
    \E r \in rows : /\ r.content_hash = chunk.content_hash
                    /\ r.project_path = chunk.project_path

\* SELECT id FROM chunks WHERE content_hash = ?1: is there such a row?
UpsertExisting(rows, chunk) == \E r \in rows : r.content_hash = chunk.content_hash

\* upsert_chunk(conn, chunk, snapshot_id) -> Result<bool>
upsert_chunk(chunk, snapshot_id) ==
    /\ clock < MaxClock
    /\ clock' = clock + 1
    /\ IF UpsertExisting(chunks, chunk)
          THEN /\ chunks' = UpdateChunkRows(chunks, chunk, snapshot_id, clock')
               /\ nextChunkId' = nextChunkId
               /\ last' = [op |-> "upsert_chunk", hash |-> chunk.content_hash,
                           project |-> chunk.project_path, snapshot_id |-> snapshot_id,
                           ok |-> TRUE, created |-> FALSE]
          ELSE IF UniqueViolation(chunks, chunk)
          THEN /\ UNCHANGED chunkVars
               /\ last' = [op |-> "upsert_chunk", hash |-> chunk.content_hash,
                           project |-> chunk.project_path, snapshot_id |-> snapshot_id,
                           ok |-> FALSE, created |-> FALSE]
          ELSE /\ chunks' = InsertChunkRow(chunks, nextChunkId, chunk, snapshot_id, clock')
               /\ nextChunkId' = nextChunkId + 1
               /\ last' = [op |-> "upsert_chunk", hash |-> chunk.content_hash,
                           project |-> chunk.project_path, snapshot_id |-> snapshot_id,
                           ok |-> TRUE, created |-> TRUE]
    /\ UNCHANGED <<dbVars, ruleVars, relVars, errorVars, snapVars, envVars>>

UpsertChunk ==
    \E c \in ChunkInputs, s \in SnapshotIdArgs : upsert_chunk(ChunkOf(c), s)

----------------------------------------------------------------------------
(* Error logs: errors.rs, storage.rs *)

ErrorTypes == {"Panic"}
Messages == {"x", "y"}
ErrorKeys == Projects \X ErrorTypes \X Messages
ErrorFiles == {"a.rs"}

KeyOf(r) == <<r.project_path, r.error_type, r.message>>

ExistingErrorAnyState(rows, error) ==
    {r \in rows : /\ r.project_path = error.project_path
                  /\ r.error_type = error.error_type
                  /\ r.message = error.message}

\* SELECT id FROM error_logs WHERE project_path = ?1 AND error_type = ?2
\*   AND message = ?3 AND is_resolved = 0
ExistingError(rows, error) ==
    {r \in rows : /\ r.project_path = error.project_path
                  /\ r.error_type = error.error_type
                  /\ r.message = error.message
                  /\ r.is_resolved = FALSE}

\* query_row takes the first row of the result; without ORDER BY any row may come first
ExistingErrorIds(rows, error) == {r.id : r \in ExistingError(rows, error)}

BumpErrorLastSeenOnly(rows, id, now) ==
    {IF r.id = id THEN [r EXCEPT !.last_seen = now] ELSE r : r \in rows}

\* UPDATE error_logs SET occurrence_count = occurrence_count + 1, last_seen = ?1 WHERE id = ?2
BumpError(rows, id, now) ==
    {IF r.id = id
        THEN [r EXCEPT !.occurrence_count = r.occurrence_count + 1, !.last_seen = now]
        ELSE r : r \in rows}

\* INSERT INTO error_logs (...) VALUES (..., 1, now, now, false)
InsertError(rows, id, error, now) ==
    rows \cup {[id |-> id,
                project_path |-> error.project_path,
                snapshot_id |-> error.snapshot_id,
                file_path |-> error.file_path,
                error_type |-> error.error_type,
                message |-> error.message,
                occurrence_count |-> 1,
                first_seen |-> now,
                last_seen |-> now,
                is_resolved |-> FALSE]}

\* The statements of upsert_error_log that can fail
ErrorSteps == {"lookup", "update", "insert"}

\* conn.query_row(..).ok(): a failed lookup is read as "no such row"
LookedUpIds(rows, error, fault) ==
    IF fault = "lookup" THEN {} ELSE ExistingErrorIds(rows, error)

\* What the call hands back: Ok(id), or the error of the statement that failed
LogReturn(key, fault, step, id) ==
    [op |-> "log_error", key |-> key, fault |-> fault, ok |-> step = "none",
     step |-> step, id |-> id]

\* upsert_error_log(conn, error) -> Result<i64>
upsert_error_log(error, fault) ==
    LET ids == LookedUpIds(error_logs, error, fault)
        key == KeyOf(error)
    IN  /\ clock < MaxClock
        /\ clock' = clock + 1
        /\ IF ids # {}
              THEN IF fault = "update"
                      THEN /\ UNCHANGED errorVars
                           /\ last' = LogReturn(key, fault, "update", NULL)
                      ELSE \E id \in ids :
                             /\ error_logs' = BumpError(error_logs, id, clock')
                             /\ nextErrorId' = nextErrorId
                             /\ logged' = [logged EXCEPT ![key] = @ + 1]
                             /\ last' = LogReturn(key, fault, "none", id)
              ELSE IF fault = "insert"
                      THEN /\ UNCHANGED errorVars
                           /\ last' = LogReturn(key, fault, "insert", NULL)
                      ELSE /\ error_logs' = InsertError(error_logs, nextErrorId, error, clock')
                           /\ nextErrorId' = nextErrorId + 1
                           /\ logged' = [logged EXCEPT ![key] = 1]
                           /\ last' = LogReturn(key, fault, "none", nextErrorId)

\* log_error(conn, project_path, error_type, message, file_path, .., snapshot_id)
log_error(project_path, error_type, message, file_path, snapshot_id, fault) ==
    upsert_error_log([project_path |-> project_path, snapshot_id |-> snapshot_id,
                      file_path |-> file_path, error_type |-> error_type,
                      message |-> message], fault)

LogError ==
    /\ \E k \in ErrorKeys, f \in ErrorFiles : log_error(k[1], k[2], k[3], f, NULL, "none")
    /\ UNCHANGED <<dbVars, ruleVars, relVars, chunkVars, snapVars, envVars>>

\* log_error_command: a call in which one statement fails (SQLite error)
LogErrorFails ==
    /\ failures < MaxFailures
    /\ failures' = failures + 1
    /\ \E k \in ErrorKeys, f \in ErrorFiles, fault \in ErrorSteps :
          log_error(k[1], k[2], k[3], f, NULL, fault)
    /\ UNCHANGED <<dbVars, ruleVars, relVars, chunkVars, snapshots, nextSnapshotId, git, edits, envVars>>

\* UPDATE error_logs SET is_resolved = 1 WHERE id = ?1
MarkResolved(rows, error_id) ==
    {IF r.id = error_id THEN [r EXCEPT !.is_resolved = TRUE] ELSE r : r \in rows}

\* resolve_error(conn, error_id) -> Ok(())
resolve_error(error_id) ==
    /\ error_logs' = MarkResolved(error_logs, error_id)
    /\ last' = [op |-> "resolve_error", id |-> error_id, ok |-> TRUE]
    /\ UNCHANGED <<nextErrorId, logged, clock>>

ResolveError ==
    /\ \E id \in 1..nextErrorId : resolve_error(id)
    /\ UNCHANGED <<dbVars, ruleVars, relVars, chunkVars, snapVars, envVars>>

\* get_error_logs(conn, project_path, include_resolved); the rows, without their order
get_error_logs(rows, project_path, include_resolved) ==
    IF include_resolved
       THEN {r \in rows : r.project_path = project_path}
       ELSE {r \in rows : r.project_path = project_path /\ r.is_resolved = FALSE}

\* get_active_errors(conn, project_path)
get_active_errors(rows, project_path) == get_error_logs(rows, project_path, FALSE)

----------------------------------------------------------------------------
(* The Git working copy of a project, as git2 shows it: snapshots.rs *)

WorkContents == {"w0", "w1"}
EmptyTree == "empty"
NoCommit == "none"

\* Oid of the n-th commit made in the repository of project p
Oid(p, n) == p \o ":" \o ToString(n)

BranchRef(name) == "refs/heads/" \o name

\* format!("v{}", version)
MasterTag(version) == "v" \o ToString(version)
\* format!("v{}.{}", master_version, agent_version)
AgentTag(major, minor) == "v" \o ToString(major) \o "." \o ToString(minor)
\* format!("agent/v{}.{}", master_version, agent_version)
AgentBranch(major, minor) == "agent/v" \o ToString(major) \o "." \o ToString(minor)

EmptyMap == [x \in {} |-> NoCommit]

\* A project directory without .git
NoGit(content) ==
    [exists |-> FALSE, n |-> 0, parent |-> EmptyMap, tree |-> EmptyMap,
     branches |-> EmptyMap, tags |-> EmptyMap, head |-> "none",
     index |-> EmptyTree, wc |-> content]

Commits(g) == DOMAIN g.parent

\* repo.head(): HEAD is symbolic; it resolves unless its branch is unborn
HeadBorn(g) == g.head \in DOMAIN g.branches
HeadCommit(g) == g.branches[g.head]

GitCommitWithoutParent(p, g, ref, parent, tree) ==
    LET oid == Oid(p, g.n + 1)
        target == IF ref = "HEAD" THEN g.head ELSE ref
    IN  [g EXCEPT !.n = g.n + 1,
                  !.parent = (oid :> NoCommit) @@ g.parent,
                  !.tree = (oid :> tree) @@ g.tree,
                  !.branches = (target :> oid) @@ g.branches]

\* repo.commit(Some(ref), .., tree, [parent]): a new commit, and the reference moves to it
GitCommit(p, g, ref, parent, tree) ==
    LET oid == Oid(p, g.n + 1)
        target == IF ref = "HEAD" THEN g.head ELSE ref
    IN  [g EXCEPT !.n = g.n + 1,
                  !.parent = (oid :> parent) @@ g.parent,
                  !.tree = (oid :> tree) @@ g.tree,
                  !.branches = (target :> oid) @@ g.branches]

\* Repository::init + the root commit on HEAD, with an empty tree
InitRepository(p, g) ==
    GitCommit(p, [g EXCEPT !.exists = TRUE, !.head = BranchRef(defaultBranch)],
              "HEAD", NoCommit, EmptyTree)

\* ensure_git_initialized(project_path)
ensure_git_initialized(p, g) == IF g.exists THEN g ELSE InitRepository(p, g)

\* index.add_all(["*"]) ; index.write() ; index.write_tree()
StageAll(g) == [g EXCEPT !.index = g.wc]

\* checkout_head(force): index and tracked files become those of HEAD's tree;
\* a tree without files leaves the directory as it is
CheckoutHead(g) ==
    LET t == g.tree[HeadCommit(g)]
    IN  IF t = EmptyTree THEN [g EXCEPT !.index = t]
                         ELSE [g EXCEPT !.index = t, !.wc = t]

\* repo.set_head(refname)
SetHead(g, ref) == [g EXCEPT !.head = ref]

\* repo.branch(name, commit, false)
CreateBranch(g, name, oid) == [g EXCEPT !.branches = (BranchRef(name) :> oid) @@ g.branches]

SkipTag(g, name, oid) == g

\* repo.tag_lightweight(name, commit, false)
CreateTag(g, name, oid) == [g EXCEPT !.tags = (name :> oid) @@ g.tags]

ResetHardDroppingTags(g, oid) ==
    [g EXCEPT !.branches = (g.head :> oid) @@ g.branches,
              !.tags = [t \in {x \in DOMAIN g.tags : g.tags[x] = oid} |-> oid],
              !.index = g.tree[oid],
              !.wc = IF g.tree[oid] = EmptyTree THEN g.wc ELSE g.tree[oid]]

\* repo.reset(commit, ResetType::Hard): the branch HEAD names moves to the commit
\* (an unborn one is created there), index and working copy become its tree
ResetHard(g, oid) ==
    [g EXCEPT !.branches = (g.head :> oid) @@ g.branches,
              !.index = g.tree[oid],
              !.wc = IF g.tree[oid] = EmptyTree THEN g.wc ELSE g.tree[oid]]

----------------------------------------------------------------------------
(* Snapshot rows: storage.rs, snapshots.rs *)

RowsOf(rows, p, type) == {r \in rows : r.project_path = p /\ r.snapshot_type = type}

\* SELECT MAX(version_major) .. WHERE project_path = ?1 AND snapshot_type = 'master'
MaxMasterVersion(rows, p) ==
    IF RowsOf(rows, p, "master") = {} THEN 0
    ELSE Max({r.version_major : r \in RowsOf(rows, p, "master")})

\* get_next_master_version(conn, project_path); a failed query is swallowed into None
get_next_master_version(rows, p, queryFails) ==
    IF queryFails THEN 1 ELSE MaxMasterVersion(rows, p) + 1

MaxAgentVersionAnyMajor(rows, p, major) ==
    LET S == RowsOf(rows, p, "agent")
    IN  IF S = {} THEN 0 ELSE Max({r.version_minor : r \in S})

\* SELECT MAX(version_minor) .. AND snapshot_type = 'agent' AND version_major = ?2
MaxAgentVersion(rows, p, major) ==
    LET S == {r \in RowsOf(rows, p, "agent") : r.version_major = major}
    IN  IF S = {} THEN 0 ELSE Max({r.version_minor : r \in S})

\* get_next_agent_version(conn, project_path, master_version)
get_next_agent_version(rows, p, major, queryFails) ==
    IF queryFails THEN 1 ELSE MaxAgentVersion(rows, p, major) + 1

\* SELECT .. FROM snapshots WHERE id = ?1
SnapshotById(rows, id) == {r \in rows : r.id = id}

\* The Snapshot that create_master_snapshot_with_git hands to create_snapshot
MasterRow(id, p, version, oid) ==
    [id |-> id, project_path |-> p, snapshot_type |-> "master",
     parent_snapshot_id |-> NULL, git_commit_hash |-> oid,
     git_tag |-> MasterTag(version), git_branch |-> "main",
     version_major |-> version, version_minor |-> NULL]

AgentRowOnMain(id, p, master_snapshot_id, major, minor, oid) ==
    [id |-> id, project_path |-> p, snapshot_type |-> "agent",
     parent_snapshot_id |-> master_snapshot_id, git_commit_hash |-> oid,
     git_tag |-> AgentTag(major, minor), git_branch |-> "main",
     version_major |-> major, version_minor |-> minor]

\* The Snapshot that create_agent_snapshot_with_git hands to create_snapshot
AgentRow(id, p, master_snapshot_id, major, minor, oid) ==
    [id |-> id, project_path |-> p, snapshot_type |-> "agent",
     parent_snapshot_id |-> master_snapshot_id, git_commit_hash |-> oid,
     git_tag |-> AgentTag(major, minor), git_branch |-> AgentBranch(major, minor),
     version_major |-> major, version_minor |-> minor]

\* What a call leaves behind and returns
Outcome(g, rows, ok, step, id) == [g |-> g, rows |-> rows, ok |-> ok, step |-> step, id |-> id]

\* The steps of create_master_snapshot_with_git at which a failure is injected
MasterSteps == {"version", "index", "changed_files", "commit", "tag", "insert"}

\* create_master_snapshot_with_git(conn, project_path, user_message)
create_master_snapshot_with_git(rows, nextId, p, g0, fail) ==
    IF fail = "open" THEN Outcome(g0, rows, FALSE, "open", NULL) ELSE
    LET g1 == ensure_git_initialized(p, g0)
        version == get_next_master_version(rows, p, fail = "version")
    IN
    IF fail = "index" THEN Outcome(g1, rows, FALSE, "index", NULL) ELSE
    LET g2 == StageAll(g1) IN
    \* get_changed_files_from_repo(&repo).unwrap_or_default(): a failed discovery
    \* (fail = "changed_files") yields no files and the call goes on
    IF fail = "commit" \/ ~HeadBorn(g2) THEN Outcome(g2, rows, FALSE, "commit", NULL) ELSE
    LET g3 == GitCommit(p, g2, "HEAD", HeadCommit(g2), g2.index)
        oid == Oid(p, g3.n)
    IN
    IF fail = "tag" \/ MasterTag(version) \in DOMAIN g3.tags
       THEN Outcome(g3, rows, FALSE, "tag", NULL) ELSE
    LET g4 == CreateTag(g3, MasterTag(version), oid) IN
    IF fail = "insert" THEN Outcome(g4, rows, FALSE, "insert", NULL) ELSE
    Outcome(g4, rows \cup {MasterRow(nextId, p, version, oid)}, TRUE, "none", nextId)

KeepHead(g) == g

\* repo.set_head("refs/heads/main") at the end of create_agent_snapshot_with_git
RestoreHead(g) == SetHead(g, BranchRef("main"))

\* The steps of create_agent_snapshot_with_git at which a failure is injected
AgentSteps ==
    {"version", "branch", "checkout", "changed_files", "commit", "tag", "restore_head",
     "insert"}

\* create_agent_snapshot_with_git(conn, project_path, master_snapshot_id, message, ..)
create_agent_snapshot_with_git(rows, nextId, p, g0, master_snapshot_id, fail) ==
    IF fail = "open" THEN Outcome(g0, rows, FALSE, "open", NULL) ELSE
    LET g1 == ensure_git_initialized(p, g0) IN
    IF fail = "load" \/ SnapshotById(rows, master_snapshot_id) = {}
       THEN Outcome(g1, rows, FALSE, "load", NULL) ELSE
    LET master_snapshot == CHOOSE r \in SnapshotById(rows, master_snapshot_id) : TRUE
        master_version == master_snapshot.version_major
        agent_version == get_next_agent_version(rows, p, master_version, fail = "version")
        branch_name == AgentBranch(master_version, agent_version)
        branch_ref == BranchRef(branch_name)
        tag_name == AgentTag(master_version, agent_version)
        master_oid == master_snapshot.git_commit_hash
    IN
    IF master_oid \notin Commits(g1) THEN Outcome(g1, rows, FALSE, "find_commit", NULL) ELSE
    IF fail = "branch" \/ branch_ref \in DOMAIN g1.branches
       THEN Outcome(g1, rows, FALSE, "branch", NULL) ELSE
    LET g2 == CreateBranch(g1, branch_name, master_oid) IN
    IF fail = "set_head" THEN Outcome(g2, rows, FALSE, "set_head", NULL) ELSE
    LET g3 == SetHead(g2, branch_ref) IN
    IF fail = "checkout" THEN Outcome(g3, rows, FALSE, "checkout", NULL) ELSE
    LET g4 == CheckoutHead(g3) IN
    IF fail = "index" THEN Outcome(g4, rows, FALSE, "index", NULL) ELSE
    LET g5 == StageAll(g4) IN
    \* .unwrap_or_default() again: fail = "changed_files" does not end the call
    IF fail = "commit" THEN Outcome(g5, rows, FALSE, "commit", NULL) ELSE
    LET g6 == GitCommit(p, g5, branch_ref, master_oid, g5.index)
        oid == Oid(p, g6.n)
    IN
    IF fail = "tag" \/ tag_name \in DOMAIN g6.tags
       THEN Outcome(g6, rows, FALSE, "tag", NULL) ELSE
    LET g7 == CreateTag(g6, tag_name, oid) IN
    IF fail = "restore_head" THEN Outcome(g7, rows, FALSE, "restore_head", NULL) ELSE
    LET g8 == RestoreHead(g7) IN
    IF fail = "restore_checkout" \/ ~HeadBorn(g8)
       THEN Outcome(g8, rows, FALSE, "restore_checkout", NULL) ELSE
    LET g9 == CheckoutHead(g8) IN
    IF fail = "insert" THEN Outcome(g9, rows, FALSE, "insert", NULL) ELSE
    Outcome(g9,
            rows \cup {AgentRow(nextId, p, master_snapshot_id, master_version,
                                agent_version, oid)},
            TRUE, "none", nextId)

AnyType(snapshot) == TRUE

\* if snapshot.snapshot_type != SnapshotType::Master { bail!(..) }
IsMaster(snapshot) == snapshot.snapshot_type = "master"

LaterMastersInclusive(rows, snapshot) ==
    {r \in rows : /\ r.project_path = snapshot.project_path
                  /\ r.snapshot_type = "master"
                  /\ r.version_major >= snapshot.version_major}

\* DELETE FROM snapshots WHERE project_path = ?1 AND snapshot_type = 'master'
\*   AND version_major > ?2
LaterMasters(rows, snapshot) ==
    {r \in rows : /\ r.project_path = snapshot.project_path
                  /\ r.snapshot_type = "master"
                  /\ r.version_major > snapshot.version_major}

\* FOREIGN KEY (parent_snapshot_id) REFERENCES snapshots(id) ON DELETE SET NULL
OnDeleteSetNull(rows, deleted, enforced) ==
    IF enforced
       THEN {IF r.parent_snapshot_id \in {d.id : d \in deleted}
                THEN [r EXCEPT !.parent_snapshot_id = NULL] ELSE r : r \in rows}
       ELSE rows

DeleteLaterMasters(rows, snapshot, enforced) ==
    OnDeleteSetNull(rows \ LaterMasters(rows, snapshot), LaterMasters(rows, snapshot),
                    enforced)

\* The steps of rewind_master_to_snapshot_with_git at which a failure is injected
RewindSteps == {"reset", "delete"}

\* rewind_master_to_snapshot_with_git(conn, snapshot_id); gs is every project's repository
rewind_master_to_snapshot_with_git(rows, gs, snapshot_id, fail) ==
    IF fail = "load" \/ SnapshotById(rows, snapshot_id) = {}
       THEN Outcome(gs, rows, FALSE, "load", NULL) ELSE
    LET snapshot == CHOOSE r \in SnapshotById(rows, snapshot_id) : TRUE
        p == snapshot.project_path
        oid == snapshot.git_commit_hash
    IN
    IF ~IsMaster(snapshot) THEN Outcome(gs, rows, FALSE, "not_master", NULL) ELSE
    IF fail = "open" \/ ~gs[p].exists THEN Outcome(gs, rows, FALSE, "open", NULL) ELSE
    IF oid \notin Commits(gs[p]) THEN Outcome(gs, rows, FALSE, "find_commit", NULL) ELSE
    IF fail = "reset" THEN Outcome(gs, rows, FALSE, "reset", NULL) ELSE
    LET gs1 == [gs EXCEPT ![p] = ResetHard(gs[p], oid)] IN
    IF fail = "delete" THEN Outcome(gs1, rows, FALSE, "delete", NULL) ELSE
    Outcome(gs1, DeleteLaterMasters(rows, snapshot, foreignKeys), TRUE, "none", NULL)

Injected(fail) == IF fail = "none" THEN 0 ELSE 1

\* Commits in all repositories, with project p's repository replaced by g
CommitCount(gs, p, g) ==
    LET others == Projects \ {p}
        q == CHOOSE x \in others : TRUE
    IN  g.n + gs[q].n

MasterCall(p, fail) ==
    /\ failures + Injected(fail) <= MaxFailures
    /\ \E out \in
          {create_master_snapshot_with_git(snapshots, nextSnapshotId, p, git[p], fail)} :
        /\ CommitCount(git, p, out.g) <= MaxCommits
        /\ git' = [git EXCEPT ![p] = out.g]
        /\ snapshots' = out.rows
        /\ nextSnapshotId' = IF out.ok THEN nextSnapshotId + 1 ELSE nextSnapshotId
        /\ failures' = failures + Injected(fail)
        /\ last' = [op |-> "create_master", project |-> p, arg |-> NULL,
                    fail |-> fail, ok |-> out.ok, step |-> out.step, id |-> out.id]
        /\ UNCHANGED <<dbVars, ruleVars, relVars, chunkVars, errorVars, envVars, clock, edits>>

AgentCall(p, m, fail) ==
    /\ failures + Injected(fail) <= MaxFailures
    /\ \E out \in
          {create_agent_snapshot_with_git(snapshots, nextSnapshotId, p, git[p], m, fail)} :
        /\ CommitCount(git, p, out.g) <= MaxCommits
        /\ git' = [git EXCEPT ![p] = out.g]
        /\ snapshots' = out.rows
        /\ nextSnapshotId' = IF out.ok THEN nextSnapshotId + 1 ELSE nextSnapshotId
        /\ failures' = failures + Injected(fail)
        /\ last' = [op |-> "create_agent", project |-> p, arg |-> m,
                    fail |-> fail, ok |-> out.ok, step |-> out.step, id |-> out.id]
        /\ UNCHANGED <<dbVars, ruleVars, relVars, chunkVars, errorVars, envVars, clock, edits>>

RewindCall(id, fail) ==
    /\ failures + Injected(fail) <= MaxFailures
    /\ \E out \in
          {rewind_master_to_snapshot_with_git(snapshots, git, id, fail)} :
        /\ git' = out.g
        /\ snapshots' = out.rows
        /\ failures' = failures + Injected(fail)
        /\ last' = [op |-> "rewind", project |-> NoText, arg |-> id,
                    fail |-> fail, ok |-> out.ok, step |-> out.step, id |-> NULL]
        /\ UNCHANGED <<dbVars, ruleVars, relVars, chunkVars, errorVars, envVars, clock, nextSnapshotId, edits>>

\* Calls in which no step fails for a reason outside the program
CreateMaster == \E p \in Projects : MasterCall(p, "none")
CreateAgent == \E p \in Projects, m \in 1..nextSnapshotId : AgentCall(p, m, "none")
Rewind == \E id \in 1..nextSnapshotId : RewindCall(id, "none")

\* Calls in which one step fails (I/O, Git or SQLite error). The faults are
\* injected in the calls of one project, which keeps one commit of the budget unused.
FaultProject == "p1"
FaultCommits == MaxCommits - 1
WithinFaultBudget == git'[FaultProject].n <= FaultCommits
CreateMasterOne == MasterCall(FaultProject, "none") /\ WithinFaultBudget
CreateAgentOne ==
    \E m \in 1..nextSnapshotId : AgentCall(FaultProject, m, "none") /\ WithinFaultBudget
RewindOne == \E id \in 1..nextSnapshotId : RewindCall(id, "none")
CreateMasterFails ==
    \E fail \in MasterSteps : MasterCall(FaultProject, fail) /\ WithinFaultBudget
CreateAgentFails ==
    \E m \in 1..nextSnapshotId, fail \in AgentSteps :
        AgentCall(FaultProject, m, fail) /\ WithinFaultBudget
RewindFails == \E id \in 1..nextSnapshotId, fail \in RewindSteps : RewindCall(id, fail)

\* The user or the agent edits the tracked files of the project
EditFilesOne ==
    \E p \in {FaultProject}, w \in WorkContents :
      /\ w # git[p].wc
      /\ edits < MaxEdits
      /\ edits' = edits + 1
      /\ git' = [git EXCEPT ![p].wc = w]
      /\ last' = [op |-> "edit_files", project |-> p]
      /\ UNCHANGED <<dbVars, ruleVars, relVars, chunkVars, errorVars, envVars, clock, snapshots, nextSnapshotId,
                     failures>>

----------------------------------------------------------------------------
(* Database bootstrap: storage.rs, init_chunk_database *)

\* A column value; NoText is SQL NULL
OldValue == "x"

\* The columns of each CREATE TABLE statement
ChunkColumns ==
    {"id", "project_path", "chunk_type", "file_path", "entity_name", "content",
     "content_hash", "metadata", "created_at", "updated_at"}
RelationshipColumns ==
    {"id", "from_chunk_id", "to_chunk_id", "relationship_type", "metadata", "created_at"}
BusinessRuleColumns ==
    {"id", "project_path", "entity_name", "file_path", "rule_description",
     "ai_interpretation", "user_correction", "is_validated", "validation_date",
     "created_at", "updated_at"}
GitColumns == {"git_commit_hash", "git_tag", "git_branch", "version_major", "version_minor"}
SnapshotColumnsBeforeGit ==
    {"id", "project_path", "snapshot_type", "parent_snapshot_id", "message",
     "user_message", "changed_files", "diff_summary", "metadata", "created_at"}
SnapshotColumns == SnapshotColumnsBeforeGit \cup GitColumns
ErrorLogColumns ==
    {"id", "project_path", "snapshot_id", "file_path", "entity_name", "error_type",
     "message", "stacktrace", "occurrence_count", "first_seen", "last_seen",
     "is_resolved"}

CreateTable(table, columns) ==
    [op |-> "create_table", name |-> table, table |-> table, columns |-> columns,
     default |-> NoText, ignored |-> FALSE]
CreateIndex(name, table, columns) ==
    [op |-> "create_index", name |-> name, table |-> table, columns |-> columns,
     default |-> NoText, ignored |-> FALSE]

PropagatesAlterErrors(column) == FALSE

\* let _ = conn.execute("ALTER TABLE ..", []): the Result is dropped
DropsAlterResult(column) == TRUE

AddColumn(table, column, default) ==
    [op |-> "add_column", name |-> column, table |-> table, columns |-> {column},
     default |-> default, ignored |-> DropsAlterResult(column)]

\* The statements of init_chunk_database, in its order
Statements ==
    << CreateTable("chunks", ChunkColumns),
       CreateIndex("idx_chunks_project", "chunks", {"project_path"}),
       CreateIndex("idx_chunks_type", "chunks", {"chunk_type"}),
       CreateIndex("idx_chunks_file", "chunks", {"file_path"}),
       CreateIndex("idx_chunks_entity", "chunks", {"entity_name"}),
       CreateIndex("idx_chunks_hash", "chunks", {"content_hash"}),
       CreateTable("chunk_relationships", RelationshipColumns),
       CreateIndex("idx_relationships_from", "chunk_relationships", {"from_chunk_id"}),
       CreateIndex("idx_relationships_to", "chunk_relationships", {"to_chunk_id"}),
       CreateTable("business_rules", BusinessRuleColumns),
       CreateIndex("idx_business_rules_project", "business_rules", {"project_path"}),
       CreateIndex("idx_business_rules_entity", "business_rules", {"entity_name"}),
       CreateTable("snapshots", SnapshotColumns),
       AddColumn("snapshots", "git_commit_hash", NoText),
       AddColumn("snapshots", "git_tag", NoText),
       AddColumn("snapshots", "git_branch", NoText),
       AddColumn("snapshots", "version_major", "1"),
       AddColumn("snapshots", "version_minor", NoText),
       AddColumn("chunks", "snapshot_id", NoText),
       CreateIndex("idx_chunks_snapshot", "chunks", {"snapshot_id"}),
       CreateIndex("idx_snapshots_project", "snapshots", {"project_path"}),
       CreateIndex("idx_snapshots_type", "snapshots", {"snapshot_type"}),
       CreateIndex("idx_snapshots_parent", "snapshots", {"parent_snapshot_id"}),
       CreateIndex("idx_snapshots_version", "snapshots", {"version_major", "version_minor"}),
       CreateTable("error_logs", ErrorLogColumns),
       CreateIndex("idx_error_logs_project", "error_logs", {"project_path"}),
       CreateIndex("idx_error_logs_snapshot", "error_logs", {"snapshot_id"}),
       CreateIndex("idx_error_logs_file", "error_logs", {"file_path"}) >>

\* A database file without tables (Connection::open on a new path, open_in_memory)
NoDatabase == [tables |-> <<>>, indexes |-> {}]

NewTable(columns) == [columns |-> columns, rows |-> {}]

\* What SQLite does with one statement: [ok, db]
Execute(db, stmt) ==
    LET has == stmt.table \in DOMAIN db.tables
        done(d) == [ok |-> TRUE, db |-> d]
        err == [ok |-> FALSE, db |-> db]
    IN  CASE stmt.op = "create_table" ->
               \* CREATE TABLE IF NOT EXISTS
               IF has THEN done(db)
               ELSE done([db EXCEPT !.tables = (stmt.table :> NewTable(stmt.columns)) @@ @])
          [] stmt.op = "create_index" ->
               \* CREATE INDEX IF NOT EXISTS: the table and its columns must exist
               IF stmt.name \in db.indexes THEN done(db)
               ELSE IF ~has THEN err
               ELSE IF ~(stmt.columns \subseteq db.tables[stmt.table].columns) THEN err
               ELSE done([db EXCEPT !.indexes = @ \cup {stmt.name}])
          [] stmt.op = "add_column" ->
               \* ALTER TABLE .. ADD COLUMN: "duplicate column name" when it is there;
               \* the rows of the table get the default
               IF ~has THEN err
               ELSE IF stmt.name \in db.tables[stmt.table].columns THEN err
               ELSE done([db EXCEPT
                            !.tables[stmt.table] =
                               [columns |-> @.columns \cup {stmt.name},
                                rows |-> {(stmt.name :> stmt.default) @@ r : r \in @.rows}]])

\* The statements run in order; `?` returns at the first error that is not dropped
RECURSIVE ExecuteAll(_, _)
ExecuteAll(db, stmts) ==
    IF stmts = <<>> THEN [ok |-> TRUE, db |-> db]
    ELSE LET res == Execute(db, Head(stmts))
         IN  IF ~res.ok /\ ~Head(stmts).ignored THEN res
             ELSE ExecuteAll(res.db, Tail(stmts))

\* init_chunk_database(conn) -> SqliteResult<()>
init_chunk_database ==
    \E res \in {ExecuteAll(database, Statements)} :
        /\ database' = res.db
        /\ last' = [op |-> "init_chunk_database", ok |-> res.ok,
                    repeated |-> last.op = "init_chunk_database"]
        /\ UNCHANGED <<chunkVars, relVars, ruleVars, errorVars, snapVars, envVars, clock>>

\* A row of a table that has the given columns
OldRow(columns) == [c \in columns |-> OldValue]

\* A database written by an earlier version of init_chunk_database: every
\* table is there, snapshots with some or none of the Git columns and chunks
\* with or without snapshot_id; the tables hold a row each, or none
LegacyDatabase(gitColumns, chunkExtra, rows) ==
    LET table(columns) == [columns |-> columns, rows |-> {OldRow(columns) : i \in rows}]
    IN  [tables |->
           ("chunks" :> table(ChunkColumns \cup chunkExtra)) @@
           ("chunk_relationships" :> table(RelationshipColumns)) @@
           ("business_rules" :> table(BusinessRuleColumns)) @@
           ("snapshots" :> table(SnapshotColumnsBeforeGit \cup gitColumns)) @@
           ("error_logs" :> table(ErrorLogColumns)),
         indexes |-> {"idx_chunks_project", "idx_chunks_type", "idx_chunks_file",
                      "idx_chunks_entity", "idx_chunks_hash", "idx_relationships_from",
                      "idx_relationships_to", "idx_business_rules_project",
                      "idx_business_rules_entity", "idx_snapshots_project",
                      "idx_snapshots_type", "idx_snapshots_parent",
                      "idx_error_logs_project", "idx_error_logs_snapshot",
                      "idx_error_logs_file"}]

\* The files a connection can be opened on
Databases ==
    {NoDatabase} \cup
    {LegacyDatabase(added, extra, rows) :
        added \in SUBSET GitColumns, extra \in SUBSET {"snapshot_id"}, rows \in SUBSET {1}}

----------------------------------------------------------------------------
(* Construction *)

\* Every table empty, no repository, no call in progress
NoRows ==
    /\ chunks = {}
    /\ nextChunkId = 1
    /\ chunk_relationships = {}
    /\ nextRelationshipId = 1
    /\ business_rules = {}
    /\ nextRuleId = 1
    /\ error_logs = {}
    /\ nextErrorId = 1
    /\ logged = [k \in ErrorKeys |-> 0]
    /\ snapshots = {}
    /\ nextSnapshotId = 1
    /\ git = [p \in Projects |-> NoGit("w0")]
    /\ defaultBranch \in {"main", "master"}
    /\ foreignKeys \in BOOLEAN
    /\ clock = 0
    /\ failures = 0
    /\ edits = 0
    /\ host = [lock |-> NoTask, tasks |-> [t \in Tasks |-> IdleTask]]
    /\ last = [op |-> "none"]

\* ChunkingOrchestrator::new / init_chunking: init_chunk_database has run on the file
Init == NoRows /\ database = ExecuteAll(NoDatabase, Statements).db

\* The stores do not depend on the Git environment: one environment is enough for them.
InitStores == Init /\ defaultBranch = "main" /\ foreignKeys = TRUE

NextChunks == UpsertChunk
SpecChunks == InitStores /\ [][NextChunks]_vars

\* The connection is opened on a new file or on one an earlier version wrote
InitSchema == NoRows /\ defaultBranch = "main" /\ foreignKeys = TRUE /\ database \in Databases
NextSchema == init_chunk_database
SpecSchema == InitSchema /\ [][NextSchema]_vars

NextSnapshots == CreateMaster \/ CreateAgent \/ Rewind
SpecSnapshots == Init /\ [][NextSnapshots]_vars

NextFaults ==
    \/ CreateMasterOne \/ CreateAgentOne \/ RewindOne
    \/ CreateMasterFails \/ CreateAgentFails \/ RewindFails
\* Foreign keys change only what a rewind's DELETE does to agent rows, which
\* SpecSnapshots covers: the fault runs take the build that does not enforce them.
InitFaults == Init /\ foreignKeys = FALSE
SpecFaults == InitFaults /\ [][NextFaults]_vars

NextEdits == CreateMasterOne \/ CreateAgentOne \/ RewindOne \/ EditFilesOne
SpecEdits == Init /\ [][NextEdits]_vars

NextErrors == LogError \/ ResolveError
NextErrorFaults == LogError \/ LogErrorFails \/ ResolveError
\* C1: the chunks table holds at most one row per content_hash.
OneRowPerHash ==
    \A r1 \in chunks, r2 \in chunks : r1.content_hash = r2.content_hash => r1 = r2

RowsWithHash(rows, hash) == {r \in rows : r.content_hash = hash}

\* C1: what one upsert_chunk call does to the table and returns.
UpsertStep ==
    last'.op = "upsert_chunk" =>
        IF RowsWithHash(chunks, last'.hash) = {}
           THEN /\ last'.ok /\ last'.created
                /\ Cardinality(chunks') = Cardinality(chunks) + 1
                /\ chunks \subseteq chunks'
                /\ Cardinality(RowsWithHash(chunks', last'.hash)) = 1
           ELSE /\ last'.ok /\ ~last'.created
                /\ {r.id : r \in chunks'} = {r.id : r \in chunks}
                /\ Cardinality(chunks') = Cardinality(chunks)

\* C1: after any sequence of upsert_chunk calls there is at most one row per
\* content_hash; an upsert of an absent hash inserts one row and returns true, an
\* upsert of a present hash inserts nothing and returns false.
C1_UpsertDedup == []OneRowPerHash /\ [][UpsertStep]_vars

\* C1 witness: two upserts of the same content, one row, the second returned false.
C1_Witness ==
    /\ clock = 2 /\ last.op = "upsert_chunk" /\ last.ok /\ ~last.created
    /\ Cardinality(chunks) = 1

SpecErrors == InitStores /\ [][NextErrors]_vars
SpecErrorFaults == InitStores /\ [][NextErrorFaults]_vars

OpenErrors(rows, key) == {r \in rows : KeyOf(r) = key /\ ~r.is_resolved}
ResolvedErrors(rows, key) == {r \in rows : KeyOf(r) = key /\ r.is_resolved}

\* C9: there is at most one unresolved error_logs row per (project, error_type,
\* message); its occurrence_count is the number of log_error calls with that key
\* since the key last had no unresolved row; a log_error call leaves such a row.
C9_ErrorDedup ==
    /\ \A k \in ErrorKeys :
          /\ Cardinality(OpenErrors(error_logs, k)) <= 1
          /\ \A r \in OpenErrors(error_logs, k) : r.occurrence_count = logged[k]
    /\ last.op = "log_error" =>
          \E r \in OpenErrors(error_logs, last.key) : r.id = last.id

\* C9 witness: three log_error calls with one key gave one row counting 3.
C9_Witness ==
    \E r \in error_logs :
        /\ ~r.is_resolved /\ r.occurrence_count = 3 /\ logged[KeyOf(r)] = 3
        /\ Cardinality({q \in error_logs : KeyOf(q) = KeyOf(r)}) = 1

\* C10: a log_error for a key whose rows are all resolved inserts a new unresolved
\* row with occurrence_count = 1 and leaves every existing row as it was; a row
\* resolved by resolve_error is not among get_active_errors.
LogAfterResolveStep ==
    /\ ( /\ last'.op = "log_error"
          /\ ResolvedErrors(error_logs, last'.key) # {}
          /\ OpenErrors(error_logs, last'.key) = {} )
        => \E n \in error_logs' :
              /\ error_logs' = error_logs \cup {n}
              /\ n.id \notin {r.id : r \in error_logs}
              /\ n.id = last'.id
              /\ KeyOf(n) = last'.key
              /\ n.occurrence_count = 1
              /\ ~n.is_resolved
    /\ last'.op = "resolve_error"
        => \A p \in Projects :
              \A r \in get_active_errors(error_logs', p) : r.id # last'.id

\* C10: every log_error and resolve_error call behaves as LogAfterResolveStep says.
C10_LogAfterResolve == [][LogAfterResolveStep]_vars

\* C10 witness: three reports, resolved, then a fourth report opened a new row.
C10_Witness ==
    /\ last.op = "log_error"
    /\ \E old \in ResolvedErrors(error_logs, last.key) : old.occurrence_count = 3
    /\ \E n \in OpenErrors(error_logs, last.key) :
          n.id = last.id /\ n.occurrence_count = 1

----------------------------------------------------------------------------
(* Snapshot versions *)

RowIds(rows) == {r.id : r \in rows}
MasterMajors(rows, p) == {r.version_major : r \in RowsOf(rows, p, "master")}
AgentsUnder(rows, p, major) == {r \in RowsOf(rows, p, "agent") : r.version_major = major}
AgentMinors(rows, p, major) == {r.version_minor : r \in AgentsUnder(rows, p, major)}

\* The row a call named by its id, in the table as it was before the call
NamedRow(id) == CHOOSE r \in SnapshotById(snapshots, id) : TRUE

\* C2: the master version_major values of a project are 1..K, one row each, and a
\* later row has the larger version.
DenseMasters ==
    \A p \in Projects :
        LET M == RowsOf(snapshots, p, "master")
        IN  /\ MasterMajors(snapshots, p) = 1..Cardinality(M)
            /\ \A r1 \in M, r2 \in M : r1.version_major < r2.version_major => r1.id < r2.id

\* C2: a successful rewind to M leaves the master versions 1..M.version_major, and
\* every row that disappeared had a larger version_major.
RewindLeavesPrefix ==
    (last'.op = "rewind" /\ last'.ok /\ SnapshotById(snapshots, last'.arg) # {}) =>
        LET M == NamedRow(last'.arg)
        IN  /\ MasterMajors(snapshots', M.project_path) = 1..M.version_major
            /\ \A r \in snapshots :
                  r.id \notin RowIds(snapshots') => r.version_major > M.version_major

\* C2: for each project the version_major values of its master rows are exactly
\* {1..K}, without gaps or duplicates and increasing in creation order, after any
\* sequence of create and rewind calls; a rewind to M leaves exactly
\* {1..M.version_major} and deletes only rows with a larger version_major.
C2_MasterVersions == []DenseMasters /\ [][RewindLeavesPrefix]_vars

\* C2 witness: three masters were created and a rewind to the second deleted the third.
C2_Witness ==
    /\ last.op = "rewind" /\ last.ok
    /\ nextSnapshotId = 4
    /\ \E p \in Projects : MasterMajors(snapshots, p) = {1, 2}

\* C3: under each (project, major) the agent version_minor values are 1..J, one row each.
DenseAgents ==
    \A p \in Projects, major \in 1..MaxCommits :
        AgentMinors(snapshots, p, major) = 1..Cardinality(AgentsUnder(snapshots, p, major))

\* C3: a successful create_agent adds one agent row, under the major of the row it
\* was given, with minor 1 + the largest minor under that major (1 if there is none).
NewAgentMinor ==
    (last'.op = "create_agent" /\ last'.ok) =>
        \E n \in snapshots' :
            LET S == AgentMinors(snapshots, n.project_path, n.version_major)
            IN  /\ snapshots' = snapshots \cup {n}
                /\ n.id = last'.id /\ n.id \notin RowIds(snapshots)
                /\ n.snapshot_type = "agent"
                /\ n.project_path = last'.project
                /\ n.version_major = NamedRow(last'.arg).version_major
                /\ n.version_minor = IF S = {} THEN 1 ELSE Max(S) + 1

\* C3: for each project and major M the version_minor values of the agent rows
\* with version_major = M are exactly {1..J} without gaps or duplicates; a new agent
\* under M gets 1 + the current maximum minor of M, whatever the agents under
\* other masters are.
C3_AgentVersions == []DenseAgents /\ [][NewAgentMinor]_vars

\* C3 witness: one project has agents 1.1 and 2.1, the second created after the first.
C3_Witness ==
    /\ last.op = "create_agent" /\ last.ok
    /\ \E p \in Projects :
          /\ AgentMinors(snapshots, p, 1) = {1}
          /\ AgentMinors(snapshots, p, 2) = {1}
          /\ \E n \in AgentsUnder(snapshots, p, 2) : n.id = last.id

----------------------------------------------------------------------------
(* Snapshots and the Git repository *)

Main == BranchRef("main")

\* The names create_agent_snapshot_with_git can give to a branch and its tag
VersionPairs == (1..MaxCommits) \X (1..MaxCommits)
AgentBranchRefs == {BranchRef(AgentBranch(v[1], v[2])) : v \in VersionPairs}

\* C4: whenever create_agent_snapshot_with_git has returned Ok, HEAD is the
\* symbolic reference refs/heads/main, whatever HEAD named before the call.
C4_AgentRestoresHead ==
    (last.op = "create_agent" /\ last.ok) => git[last.project].head = Main

\* C4 witness: an agent call that failed between set_head and the tag left a
\* branch without its tag (and HEAD on it); a later agent call succeeded.
C4_Witness ==
    /\ last.op = "create_agent" /\ last.ok
    /\ \E v \in VersionPairs :
          /\ BranchRef(AgentBranch(v[1], v[2])) \in DOMAIN git[last.project].branches
          /\ AgentTag(v[1], v[2]) \notin DOMAIN git[last.project].tags

\* C5: after rewind_master_to_snapshot_with_git(M) has returned Ok, HEAD and the
\* branch main both point to M.git_commit_hash.
C5_RewindMovesMain ==
    (last.op = "rewind" /\ last.ok) =>
        LET M == NamedRow(last.arg)
            g == git[M.project_path]
        IN  /\ HeadBorn(g) /\ HeadCommit(g) = M.git_commit_hash
            /\ Main \in DOMAIN g.branches /\ g.branches[Main] = M.git_commit_hash

\* C6: what a successful rewind to master M of project P changes: the rows that
\* go are the masters of P with a larger version_major, every other row stays as
\* it was, and the agent branches and the tags of the repository stay as they were.
RewindFrame ==
    (last'.op = "rewind" /\ last'.ok /\ SnapshotById(snapshots, last'.arg) # {}) =>
        LET M == NamedRow(last'.arg)
            P == M.project_path
            gone == {r \in snapshots : /\ r.project_path = P
                                       /\ r.snapshot_type = "master"
                                       /\ r.version_major > M.version_major}
        IN  /\ snapshots' = snapshots \ gone
            /\ \A b \in AgentBranchRefs \cap DOMAIN git[P].branches :
                  /\ b \in DOMAIN git'[P].branches
                  /\ git'[P].branches[b] = git[P].branches[b]
            /\ git'[P].tags = git[P].tags
            /\ \A q \in Projects \ {P} : git'[q] = git[q]

\* C6: a successful rewind to master M of project P deletes exactly the master
\* rows of P with version_major > M.version_major and leaves unchanged every agent
\* row, every row of other projects and every agent branch and tag in Git.
C6_RewindFrame == [][RewindFrame]_vars

\* C7: a rewind given the id of an agent row, or an id that is in no row, returns
\* an error and changes neither the snapshots table nor any repository (HEAD,
\* branches, tags, index, working copy).
RewindRejected ==
    ( /\ last'.op = "rewind"
      /\ \A r \in SnapshotById(snapshots, last'.arg) : r.snapshot_type = "agent" )
        => (~last'.ok /\ snapshots' = snapshots /\ git' = git)

\* C7: every rewind call that names an agent row or no row is rejected without effect.
C7_RewindRejects == [][RewindRejected]_vars

\* C7 witness: a rewind named an agent row while the working copy had uncommitted
\* edits, and a rewind named an id that is in no row.
C7_Witness ==
    /\ last.op = "rewind" /\ ~last.ok
    /\ \/ /\ last.step = "not_master"
          /\ git[FaultProject].wc # git[FaultProject].index
       \/ /\ last.step = "load" /\ snapshots # {}
          /\ git[FaultProject].wc # git[FaultProject].index

\* C8: what a create call leaves: a row it adds has its commit and its tag in Git,
\* the tag on the commit; a call that fails at the row insert leaves its new commit
\* and tag and no row; a call that fails at the tag leaves its new commit, no tag
\* and no row; a call that fails at the commit leaves no tag and no row.
CreateOrder ==
    last'.op \in {"create_master", "create_agent"} =>
        LET g == git[last'.project]
            h == git'[last'.project]
            newCommits == Commits(h) \ Commits(g)
            newTags == DOMAIN h.tags \ DOMAIN g.tags
        IN  /\ \A n \in snapshots' \ snapshots :
                  /\ last'.ok /\ n.id = last'.id
                  /\ n.git_commit_hash \in newCommits
                  /\ n.git_tag \in newTags
                  /\ h.tags[n.git_tag] = n.git_commit_hash
            /\ last'.ok => \E n \in snapshots' : snapshots' = snapshots \cup {n} /\ n \notin snapshots
            /\ ~last'.ok => snapshots' = snapshots
            /\ last'.step = "insert" =>
                  \E t \in newTags : h.tags[t] \in newCommits
            /\ last'.step = "tag" => newTags = {} /\ Oid(last'.project, h.n) \in newCommits
            /\ last'.step = "commit" => newTags = {}
            /\ \A t \in DOMAIN g.tags : t \in DOMAIN h.tags /\ h.tags[t] = g.tags[t]
            /\ Commits(g) \subseteq Commits(h)

\* C8: in create_master_snapshot_with_git and create_agent_snapshot_with_git the
\* order is index write, commit, tag, row insert: no row is inserted unless its
\* commit and tag exist in Git, and a failed row insert leaves the commit and the
\* tag of the call in Git.
C8_CreateOrder == [][CreateOrder]_vars

\* C8 witness: the row insert of a create call failed; its tag is on its commit
\* and no row names that commit.
C8_Witness ==
    /\ last.op \in {"create_master", "create_agent"} /\ last.step = "insert" /\ ~last.ok
    /\ \E t \in DOMAIN git[last.project].tags :
          /\ git[last.project].tags[t] = Oid(last.project, git[last.project].n)
          /\ \A r \in snapshots : r.git_commit_hash # git[last.project].tags[t]

----------------------------------------------------------------------------
(* Chunk rows *)

\* The columns an UPDATE of an existing chunk may rewrite
Rewritten == {"updated_at", "metadata", "snapshot_id"}

\* Row r2 is row r1 except, at most, in the columns of cols
SameExcept(r1, r2, cols) ==
    /\ DOMAIN r1 = DOMAIN r2
    /\ \A f \in DOMAIN r1 \ cols : r1[f] = r2[f]

\* C11: what an upsert_chunk call that finds its content_hash does to the table.
UpdateFrame ==
    (last'.op = "upsert_chunk" /\ RowsWithHash(chunks, last'.hash) # {}) =>
        /\ \A r \in chunks : r.content_hash # last'.hash => r \in chunks'
        /\ \A r \in RowsWithHash(chunks, last'.hash) :
              \E n \in chunks' : n.id = r.id /\ SameExcept(r, n, Rewritten)
        /\ Cardinality(chunks') = Cardinality(chunks)

\* C11: an upsert_chunk that hits an existing content_hash changes only updated_at,
\* metadata and snapshot_id of that row; content, content_hash, chunk_type,
\* project_path, file_path, entity_name, created_at and id stay, and so does
\* every other row.
C11_UpdateFrame == [][UpdateFrame]_vars

\* C11 witness: a call for another project hit the hash of a stored row; the row
\* kept its project_path and its created_at and took the call's time.
C11_Witness ==
    /\ last.op = "upsert_chunk" /\ last.ok /\ ~last.created
    /\ Cardinality(chunks) = 2
    /\ \E r \in RowsWithHash(chunks, last.hash) :
          /\ r.project_path # last.project
          /\ r.updated_at = clock /\ r.created_at < clock

----------------------------------------------------------------------------
(* Snapshot rows *)

\* The version text of a tag or branch name: "1", "1.2"
Dotted(major, minor) == ToString(major) \o "." \o ToString(minor)

\* C12: every snapshot row has version_major >= 1; a master row has no
\* version_minor, git_tag v{major} and git_branch main; an agent row has
\* version_minor >= 1, git_tag v{major}.{minor} and git_branch agent/v{major}.{minor}.
C12_RowShape ==
    \A r \in snapshots :
        /\ r.version_major >= 1
        /\ r.snapshot_type \in {"master", "agent"}
        /\ r.snapshot_type = "master" =>
              /\ r.version_minor = NULL
              /\ r.git_tag = "v" \o ToString(r.version_major)
              /\ r.git_branch = "main"
        /\ r.snapshot_type = "agent" =>
              /\ r.version_minor >= 1
              /\ r.git_tag = "v" \o Dotted(r.version_major, r.version_minor)
              /\ r.git_branch = "agent/v" \o Dotted(r.version_major, r.version_minor)

\* C12 witness: a master row and the second agent row under it, after a failed call.
C12_Witness ==
    /\ failures = 1
    /\ \E m \in snapshots, a \in snapshots :
          /\ m.snapshot_type = "master" /\ a.snapshot_type = "agent"
          /\ a.parent_snapshot_id = m.id /\ a.version_minor = 2

\* C13: in every state, rewinds included, the commit a snapshot row names exists
\* in the repository of the row's project, and the tag the row names exists there
\* and points to that commit.
C13_RowsResolve ==
    \A r \in snapshots :
        LET g == git[r.project_path]
        IN  /\ g.exists
            /\ r.git_commit_hash \in Commits(g)
            /\ r.git_tag \in DOMAIN g.tags
            /\ g.tags[r.git_tag] = r.git_commit_hash

\* C13 witness: a rewind deleted the master row of an agent row that is still there.
C13_Witness ==
    /\ last.op = "rewind" /\ last.ok
    /\ \E a \in snapshots :
          /\ a.snapshot_type = "agent"
          /\ \A m \in snapshots : m.snapshot_type = "master" =>
                m.version_major < a.version_major

----------------------------------------------------------------------------
(* Orchestrator: mod.rs, incremental reindex *)

MaxReindexes == 2    \* reindex_changed_files calls per behaviour

\* Paths of the working copy the orchestrator is given
WalkPaths == {"a.rs", "c.txt"}

\* What the file system answers for a path: exists() = false, read_to_string
\* fails, or the text of the file
FileStates == {"missing", "unreadable"} \cup FileContents
FileSystems ==
    {fs \in [WalkPaths -> FileStates] : fs["c.txt"] \in {"missing", "fn a() {}"}}
\* Changed-file lists
FileLists ==
    {<<>>, <<"a.rs">>, <<"c.txt">>, <<"a.rs", "c.txt">>, <<"a.rs", "a.rs">>}
Listed(files) == {files[i] : i \in DOMAIN files}

\* detect_language: the grammar of the file's extension, NoText for Err
detect_language(file_path) ==
    CASE file_path = "a.rs" -> "rust"
      [] file_path = "b.rs" -> "rust"
      [] OTHER -> NoText

ast_repr(content) == AstOfFunctionItem

\* create_raw_source_chunk: the raw_source chunk of one file
create_raw_source_chunk(project, file_path, content) ==
    ChunkOf([project_path |-> project, chunk_type |-> "raw_source",
             file_path |-> file_path, entity_name |-> NoText,
             content |-> content, metadata |-> NoText])

\* create_ast_chunks: the ast chunks of one file, or Err for a file without grammar
create_ast_chunks(project, file_path, content) ==
    IF detect_language(file_path) = NoText
       THEN [ok |-> FALSE, chunks |-> <<>>]
       ELSE [ok |-> TRUE,
             chunks |-> <<ChunkOf([project_path |-> project, chunk_type |-> "ast",
                                   file_path |-> file_path, entity_name |-> NoText,
                                   content |-> ast_repr(content), metadata |-> "{}"])>>]

\* The listed paths that exist and are readable
ReadableListed(files, fs) == {q \in Listed(files) : fs[q] \in FileContents}

UpsertError == "upsert failed"
ReadError(file_path) == "Failed to read " \o file_path

\* The running state of one orchestrator call: the table, the id counter, the
\* ChunkingResult counters and errors, and the number of upsert_chunk calls made
Running(rows, nextId) ==
    [rows |-> rows, nextId |-> nextId, chunks_created |-> 0, chunks_updated |-> 0,
     errors |-> <<>>, upserts |-> 0]

UpsertedKeepingLink(st, chunk, snapshot_id, now, failAt) ==
    LET n == st.upserts + 1
        t == [st EXCEPT !.upserts = n]
    IN  IF n = failAt
           THEN [t EXCEPT !.errors = Append(@, UpsertError)]
        ELSE IF UpsertExisting(st.rows, chunk)
           THEN [t EXCEPT !.rows = {IF r.content_hash = chunk.content_hash
                                       THEN [r EXCEPT !.updated_at = now,
                                                      !.metadata = chunk.metadata]
                                       ELSE r : r \in st.rows},
                          !.chunks_updated = @ + 1]
        ELSE [t EXCEPT !.rows = InsertChunkRow(@, st.nextId, chunk, snapshot_id, now),
                       !.nextId = @ + 1,
                       !.chunks_created = @ + 1]

\* match storage::upsert_chunk(conn, chunk, snapshot_id): Ok(created) counts,
\* Err is pushed to errors.  failAt is the upsert of this call the database fails.
Upserted(st, chunk, snapshot_id, now, failAt) ==
    LET n == st.upserts + 1
        t == [st EXCEPT !.upserts = n]
    IN  IF n = failAt
           THEN [t EXCEPT !.errors = Append(@, UpsertError)]
        ELSE IF UpsertExisting(st.rows, chunk)
           THEN [t EXCEPT !.rows = UpdateChunkRows(@, chunk, snapshot_id, now),
                          !.chunks_updated = @ + 1]
        ELSE IF UniqueViolation(st.rows, chunk)
           THEN [t EXCEPT !.errors = Append(@, UpsertError)]
        ELSE [t EXCEPT !.rows = InsertChunkRow(@, st.nextId, chunk, snapshot_id, now),
                       !.nextId = @ + 1,
                       !.chunks_created = @ + 1]

RECURSIVE UpsertedAll(_, _, _, _, _)
UpsertedAll(st, cs, snapshot_id, now, failAt) ==
    IF cs = <<>> THEN st
    ELSE UpsertedAll(Upserted(st, Head(cs), snapshot_id, now, failAt), Tail(cs),
                     snapshot_id, now, failAt)

ReindexFileStopsAtError(st, project, file_path, fs, snapshot_id, now, failAt) ==
    IF st.errors # <<>> \/ fs[file_path] = "missing" THEN st
    ELSE IF fs[file_path] = "unreadable"
       THEN [st EXCEPT !.errors = Append(@, ReadError(file_path))]
    ELSE LET content == fs[file_path]
             raw == Upserted(st, create_raw_source_chunk(project, file_path, content),
                             snapshot_id, now, failAt)
             ast == create_ast_chunks(project, file_path, content)
         IN  IF ast.ok /\ raw.errors = <<>>
                THEN UpsertedAll(raw, ast.chunks, snapshot_id, now, failAt)
                ELSE raw

\* The body of the loop of reindex_changed_files for one path
ReindexFile(st, project, file_path, fs, snapshot_id, now, failAt) ==
    IF fs[file_path] = "missing" THEN st
    ELSE IF fs[file_path] = "unreadable"
       THEN [st EXCEPT !.errors = Append(@, ReadError(file_path))]
    ELSE LET content == fs[file_path]
             raw == Upserted(st, create_raw_source_chunk(project, file_path, content),
                             snapshot_id, now, failAt)
             ast == create_ast_chunks(project, file_path, content)
         IN  IF ast.ok THEN UpsertedAll(raw, ast.chunks, snapshot_id, now, failAt)
                       ELSE raw

RECURSIVE ReindexFiles(_, _, _, _, _, _, _)
ReindexFiles(st, project, files, fs, snapshot_id, now, failAt) ==
    IF files = <<>> THEN st
    ELSE ReindexFiles(ReindexFile(st, project, Head(files), fs, snapshot_id, now, failAt),
                      project, Tail(files), fs, snapshot_id, now, failAt)

\* ChunkingResult
ResultOf(st) ==
    [chunks_created |-> st.chunks_created, chunks_updated |-> st.chunks_updated,
     errors |-> st.errors]

\* reindex_changed_files(project_path, changed_files, snapshot_id) -> Ok(ChunkingResult)
reindex_changed_files(project, files, fs, snapshot_id, failAt) ==
    /\ clock < MaxReindexes
    /\ clock' = clock + 1
    /\ \E st \in {ReindexFiles(Running(chunks, nextChunkId), project, files, fs,
                                snapshot_id, clock + 1, failAt)} :
           /\ chunks' = st.rows
           /\ nextChunkId' = st.nextId
           /\ last' = [op |-> "reindex", project |-> project, files |-> files,
                       fs |-> fs, snapshot_id |-> snapshot_id, ok |-> TRUE,
                       upserts |-> st.upserts, result |-> ResultOf(st)]
    /\ UNCHANGED <<dbVars, ruleVars, relVars, errorVars, snapVars, envVars>>

ReindexSnapshots == {1, 2}
\* The upsert_chunk call of a run that the database fails: none or the first
UpsertFaults == {0, 1}

\* Paths outside the list are not looked at: they are taken as missing.
ReindexChangedFiles ==
    \E project \in Projects, files \in FileLists, fs \in FileSystems,
       snapshot_id \in ReindexSnapshots, failAt \in UpsertFaults :
        /\ \A q \in WalkPaths \ Listed(files) : fs[q] = "missing"
        /\ reindex_changed_files(project, files, fs, snapshot_id, failAt)

NextReindex == ReindexChangedFiles
SpecReindex == InitStores /\ [][NextReindex]_vars

UpsertErrors(result) == {i \in DOMAIN result.errors : result.errors[i] = UpsertError}

LinkedTo(rows, hash, snapshot_id) ==
    /\ RowsWithHash(rows, hash) # {}
    /\ \A r \in RowsWithHash(rows, hash) : r.snapshot_id = snapshot_id

----------------------------------------------------------------------------
(* Orchestrator: mod.rs, snapshot-triggered reindex *)

\* The changed-file lists and file systems of the snapshot calls: the list is
\* what get_changed_files_from_repo stored in the row (create_user_snapshot) or
\* the caller's argument (create_agent_snapshot)
SnapshotLists == {<<>>, <<"a.rs">>}
SnapshotFileSystems ==
    {fs \in FileSystems : fs["c.txt"] = "missing" /\ fs["a.rs"] \in {"unreadable", "fn a() {}"}}
\* The steps of the snapshot functions at which these calls take a failure
SnapshotFaults == {"tag", "insert"}

ReturnsErrWhenReindexErrs(id, st) ==
    IF st.errors = <<>> THEN [ok |-> TRUE, id |-> id] ELSE [ok |-> FALSE, id |-> NULL]

\* match self.reindex_changed_files(..) { Ok(result) => println, Err(e) => warn }
\* followed by Ok(snapshot_id)
ReturnsSnapshotId(id, st) == [ok |-> TRUE, id |-> id]

\* if !changed_files.is_empty() { reindex_changed_files(.., Some(snapshot_id)) }
AutoReindex(rows, nextId, project, files, fs, snapshot_id, now, failAt) ==
    IF files = <<>> THEN Running(rows, nextId)
    ELSE ReindexFiles(Running(rows, nextId), project, files, fs, snapshot_id, now, failAt)

\* A snapshot call of the orchestrator: `out` is what the snapshot function did
\* and returned; through `?` its error is the orchestrator's.
\* (the call stays within `commits` commits of the project and `reindexes`
\* readings of the clock)
SnapshotThenReindexWithin(op, p, arg, out, fail, files, fs, failAt, commits, reindexes) ==
    LET now == IF out.ok /\ files # <<>> THEN clock + 1 ELSE clock
        st == IF out.ok
                 THEN AutoReindex(chunks, nextChunkId, p, files, fs, out.id, now, failAt)
                 ELSE Running(chunks, nextChunkId)
        ret == IF out.ok THEN ReturnsSnapshotId(out.id, st)
                         ELSE [ok |-> FALSE, id |-> NULL]
    IN  /\ failures + Injected(fail) <= MaxFailures
        /\ now <= reindexes
        /\ git' = [git EXCEPT ![p] = out.g]
        /\ git'[p].n <= commits
        /\ snapshots' = out.rows
        /\ nextSnapshotId' = IF out.ok THEN nextSnapshotId + 1 ELSE nextSnapshotId
        /\ failures' = failures + Injected(fail)
        /\ clock' = now
        /\ chunks' = st.rows
        /\ nextChunkId' = st.nextId
        /\ last' = [op |-> op, project |-> p, arg |-> arg, fail |-> fail,
                    ok |-> ret.ok, step |-> out.step, id |-> ret.id,
                    files |-> files, snapshot_id |-> out.id,
                    result |-> ResultOf(st)]
        /\ UNCHANGED <<dbVars, ruleVars, relVars, errorVars, envVars, edits>>

SnapshotThenReindex(op, p, arg, out, fail, files, fs, failAt) ==
    SnapshotThenReindexWithin(op, p, arg, out, fail, files, fs, failAt,
                              FaultCommits - 1, MaxReindexes)

\* ChunkingOrchestrator::create_user_snapshot(project_path, user_message, ..)
create_user_snapshot(p, fail, files, fs, failAt) ==
    SnapshotThenReindex("create_user_snapshot", p, NULL,
        create_master_snapshot_with_git(snapshots, nextSnapshotId, p, git[p], fail),
        fail, files, fs, failAt)

\* ChunkingOrchestrator::create_agent_snapshot(project_path, message,
\* changed_files, master_snapshot_id)
create_agent_snapshot(p, m, fail, files, fs, failAt) ==
    SnapshotThenReindex("create_agent_snapshot", p, m,
        create_agent_snapshot_with_git(snapshots, nextSnapshotId, p, git[p], m, fail),
        fail, files, fs, failAt)

\* The inputs a call does not come to look at take one value: no file is read
\* after a failed step or for an empty list, no upsert is made for an unreadable file.
Looked(fail, files, fs, failAt) ==
    /\ (fail # "none" \/ files = <<>>) =>
          /\ files = <<>> /\ failAt = 0
          /\ \A q \in WalkPaths : fs[q] = "missing"
    /\ (fail = "none" /\ files # <<>>) =>
          /\ fs \in SnapshotFileSystems
          /\ ReadableListed(files, fs) = {} => failAt = 0

CreateUserSnapshot ==
    \E fail \in {"none"} \cup SnapshotFaults, files \in SnapshotLists,
       fs \in FileSystems, failAt \in UpsertFaults :
        /\ Looked(fail, files, fs, failAt)
        /\ create_user_snapshot(FaultProject, fail, files, fs, failAt)

CreateAgentSnapshot ==
    \E m \in 1..nextSnapshotId, fail \in {"none"} \cup SnapshotFaults,
       files \in SnapshotLists, fs \in FileSystems, failAt \in UpsertFaults :
        /\ Looked(fail, files, fs, failAt)
        /\ create_agent_snapshot(FaultProject, m, fail, files, fs, failAt)

NextOrchestrator == CreateUserSnapshot \/ CreateAgentSnapshot
SpecOrchestrator == InitFaults /\ [][NextOrchestrator]_vars

\* The orchestrator on the working copy of the Git model: the project tracks one
\* file, a.rs, and a working-copy state is the text of that file
TrackedFile == "a.rs"
TextOf(tree) == IF tree = "w0" THEN "fn a() {}" ELSE "fn b() {}"

\* What exists() and read_to_string answer on working copy g
WorkingFiles(g) ==
    [q \in WalkPaths |-> IF q = TrackedFile THEN TextOf(g.wc) ELSE "missing"]

\* get_changed_files_from_repo: diff_tree_to_workdir_with_index against HEAD's
\* tree, taken before the commit; the list the master row stores as changed_files
ChangedFiles(g) ==
    IF HeadBorn(g) /\ g.tree[HeadCommit(g)] = g.wc THEN <<>> ELSE <<TrackedFile>>

\* create_user_snapshot: the list is read back from the new row, the files are
\* read after the snapshot call returned
CreateUserSnapshotTracked ==
    \E p \in {FaultProject} :
    \E out \in {create_master_snapshot_with_git(snapshots, nextSnapshotId, p, git[p], "none")} :
        SnapshotThenReindexWithin("create_user_snapshot", p, NULL, out, "none",
            ChangedFiles(ensure_git_initialized(p, git[p])), WorkingFiles(out.g), 0,
            MaxCommits, MaxClock)

\* create_agent_snapshot: the caller lists the tracked file as changed
CreateAgentSnapshotTracked ==
    \E p \in {FaultProject}, m \in 1..nextSnapshotId :
    \E out \in {create_agent_snapshot_with_git(snapshots, nextSnapshotId, p, git[p], m, "none")} :
        SnapshotThenReindexWithin("create_agent_snapshot", p, m, out, "none",
            <<TrackedFile>>, WorkingFiles(out.g), 0, MaxCommits, MaxClock)

NextTracked ==
    \/ CreateUserSnapshotTracked \/ CreateAgentSnapshotTracked
    \/ EditFilesOne \/ RewindOne
SpecTracked == InitStores /\ [][NextTracked]_vars

\* C15: what a snapshot call of the orchestrator returns and leaves in table
\* snapshots, against what the snapshot function it calls returns and leaves.
OrchestratorStep ==
    LET p == last'.project
        out == IF last'.op = "create_user_snapshot"
                  THEN create_master_snapshot_with_git(snapshots, nextSnapshotId, p,
                                                       git[p], last'.fail)
                  ELSE create_agent_snapshot_with_git(snapshots, nextSnapshotId, p,
                                                      git[p], last'.arg, last'.fail)
    IN  last'.op \in {"create_user_snapshot", "create_agent_snapshot"} =>
            /\ last'.ok = out.ok
            /\ out.ok => last'.id = out.id
            /\ snapshots' = out.rows

\* C15: create_user_snapshot and create_agent_snapshot return Ok(snapshot id)
\* whenever the snapshot creation they call succeeded, whatever the reindex that
\* follows does: its errors never turn the result into an error and the rows of
\* table snapshots are those the snapshot creation left.
C15_OrchestratorReturns == [][OrchestratorStep]_vars

\* C15 witness: an orchestrator call returned the id of its new row although the
\* reindex it triggered recorded an error.
C15_Witness ==
    /\ last.op \in {"create_user_snapshot", "create_agent_snapshot"}
    /\ last.ok /\ last.result.errors # <<>>
    /\ \E r \in snapshots : r.id = last.id /\ r.project_path = last.project
    /\ \E r \in snapshots : r.snapshot_type = "agent"

----------------------------------------------------------------------------
(* Command entry points: commands/chunking.rs *)

\* snapshots::create_master_snapshot, as the command calls it
snapshots_create_master_snapshot(rows, nextId, p, g, fail) ==
    create_master_snapshot_with_git(rows, nextId, p, g, fail)

\* snapshots::create_agent_snapshot, as the command calls it
snapshots_create_agent_snapshot(rows, nextId, p, g, m, fail) ==
    create_agent_snapshot_with_git(rows, nextId, p, g, m, fail)

SnapshotCommands == {"create_master", "create_agent"}

\* The command is invoked in a worker context and comes to chunking_state.0.lock()
Request(t) ==
    /\ host.tasks[t].pc = "idle"
    /\ \E op \in SnapshotCommands, m \in 1..nextSnapshotId :
          /\ op = "create_master" => m = 1
          /\ host' = [host EXCEPT !.tasks[t] = [IdleTask EXCEPT !.pc = "waiting", !.op = op,
                                                 !.arg = IF op = "create_master" THEN NULL ELSE m]]
    /\ UNCHANGED <<dbVars, ruleVars, relVars, chunkVars, errorVars, snapVars, defaultBranch, foreignKeys, clock, last>>

NeverBlocks(h) == TRUE

\* Mutex::lock returns once no other context holds the guard
LockFree(h) == h.lock = NoTask

\* let conn = chunking_state.0.lock()
Acquire(t) ==
    /\ host.tasks[t].pc = "waiting"
    /\ LockFree(host)
    /\ host' = [host EXCEPT !.lock = t, !.tasks[t].pc = "locked"]
    /\ UNCHANGED <<dbVars, ruleVars, relVars, chunkVars, errorVars, snapVars, defaultBranch, foreignKeys, clock, last>>

\* The first statement of the snapshot function that reads table snapshots (the
\* version query; for an agent snapshot the load of the master row before it)
ReadSnapshots(t) ==
    /\ host.tasks[t].pc = "locked"
    /\ host' = [host EXCEPT !.tasks[t].pc = "read", !.tasks[t].rows = snapshots]
    /\ UNCHANGED <<dbVars, ruleVars, relVars, chunkVars, errorVars, snapVars, defaultBranch, foreignKeys, clock, last>>

\* The rest of the snapshot function, its return (Ok or Err) and the drop of
\* the guard that the return brings
Return(t) ==
    LET task == host.tasks[t]
        p == FaultProject
    IN  /\ task.pc = "read"
        /\ \E fail \in {"none"} \cup SnapshotFaults :
              LET out == IF task.op = "create_master"
                            THEN snapshots_create_master_snapshot(task.rows, nextSnapshotId,
                                                                  p, git[p], fail)
                            ELSE snapshots_create_agent_snapshot(task.rows, nextSnapshotId,
                                                                 p, git[p], task.arg, fail)
              IN  /\ failures + Injected(fail) <= MaxFailures
                  /\ out.g.n < FaultCommits
                  /\ git' = [git EXCEPT ![p] = out.g]
                  /\ snapshots' = snapshots \cup (out.rows \ task.rows)
                  /\ nextSnapshotId' = IF out.ok THEN nextSnapshotId + 1 ELSE nextSnapshotId
                  /\ failures' = failures + Injected(fail)
                  /\ last' = [op |-> task.op, project |-> p, arg |-> task.arg,
                              ok |-> out.ok, step |-> out.step, id |-> out.id, task |-> t]
        /\ host' = [host EXCEPT !.lock = IF host.lock = t THEN NoTask ELSE host.lock,
                                !.tasks[t] = IdleTask]
        /\ UNCHANGED <<dbVars, ruleVars, relVars, chunkVars, errorVars, defaultBranch, foreignKeys, clock, edits>>

NextHost == \E t \in Tasks : Request(t) \/ Acquire(t) \/ ReadSnapshots(t) \/ Return(t)
SpecHost == InitFaults /\ [][NextHost]_vars

VersionKey(r) == <<r.project_path, r.snapshot_type, r.version_major, r.version_minor>>
HoldsGuard(t) == host.tasks[t].pc \in {"locked", "read"}

\* C16: with the command entry points taking the host mutex for their whole
\* duration, at most one snapshot-creation request runs at a time and it holds the
\* mutex; the rows a request read its maximum version from are still the rows of
\* the table when it writes; no two snapshot rows have the same (project, type,
\* version_major, version_minor); and when no request runs the mutex is free,
\* whether the requests returned Ok or an error.
C16_Serialized ==
    /\ \A t \in Tasks : HoldsGuard(t) => host.lock = t
    /\ \A t \in Tasks : host.tasks[t].pc = "read" => host.tasks[t].rows = snapshots
    /\ \A r1 \in snapshots, r2 \in snapshots : VersionKey(r1) = VersionKey(r2) => r1 = r2
    /\ (\A t \in Tasks : ~HoldsGuard(t)) => host.lock = NoTask

\* C16 witness: after a request that returned an error, a request has read the
\* table under the mutex while a request for the same command waits for it.
C16_Witness ==
    /\ last.op \in SnapshotCommands /\ ~last.ok /\ snapshots # {}
    /\ \E t \in Tasks, u \in Tasks :
          /\ host.tasks[t].pc = "read" /\ host.tasks[u].pc = "waiting"
          /\ host.tasks[t].op = host.tasks[u].op /\ host.lock = t

----------------------------------------------------------------------------
(* upsert_chunk calls of two contexts, each on its own connection, run without
   the host mutex: the statements of the calls interleave *)

UpsertInputs ==
    {c \in ChunkInputs : c.chunk_type = "raw_source" /\ c.file_path = "a.rs"
                         /\ c.metadata = NoText}

\* let now = Utc::now() ; SELECT id FROM chunks WHERE content_hash = ?1
UpsertLookup(t) ==
    /\ host.tasks[t].pc = "idle"
    /\ clock < MaxClock
    /\ clock' = clock + 1
    /\ \E c \in UpsertInputs, snapshot_id \in SnapshotIdArgs :
          host' = [host EXCEPT !.tasks[t] =
                      [pc |-> "looked", op |-> "upsert_chunk",
                       arg |-> [chunk |-> ChunkOf(c), snapshot_id |-> snapshot_id,
                                now |-> clock',
                                existing |-> UpsertExisting(chunks, ChunkOf(c))],
                       rows |-> {}]]
    /\ UNCHANGED <<dbVars, ruleVars, relVars, chunkVars, errorVars, snapVars, defaultBranch, foreignKeys, last>>

\* if let Some(_id) = existing { UPDATE .. } else { INSERT .. } and the return
UpsertWrite(t) ==
    LET a == host.tasks[t].arg
        violation == ~a.existing /\ UniqueViolation(chunks, a.chunk)
    IN  /\ host.tasks[t].pc = "looked"
        /\ chunks' = IF a.existing
                        THEN UpdateChunkRows(chunks, a.chunk, a.snapshot_id, a.now)
                     ELSE IF violation THEN chunks
                     ELSE InsertChunkRow(chunks, nextChunkId, a.chunk, a.snapshot_id, a.now)
        /\ nextChunkId' = IF a.existing \/ violation THEN nextChunkId ELSE nextChunkId + 1
        /\ last' = [op |-> "upsert_chunk", hash |-> a.chunk.content_hash,
                    project |-> a.chunk.project_path, snapshot_id |-> a.snapshot_id,
                    ok |-> ~violation, created |-> ~a.existing /\ ~violation,
                    task |-> t, existing |-> a.existing]
        /\ host' = [host EXCEPT !.tasks[t] = IdleTask]
        /\ UNCHANGED <<dbVars, ruleVars, relVars, errorVars, snapVars, defaultBranch, foreignKeys, clock>>

NextUpserts == \E t \in Tasks : UpsertLookup(t) \/ UpsertWrite(t)
SpecUpserts == InitStores /\ [][NextUpserts]_vars

\* C17: what the write of an interleaved upsert_chunk call leaves: one row per
\* content_hash, and an INSERT that meets a row with its hash fails and writes nothing.
InterleavedUpsert ==
    /\ \A r1 \in chunks', r2 \in chunks' : r1.content_hash = r2.content_hash => r1 = r2
    /\ (\E t \in Tasks : /\ host.tasks[t].pc = "looked" /\ host'.tasks[t].pc = "idle"
                          /\ last'.task = t /\ ~last'.existing
                          /\ RowsWithHash(chunks, last'.hash) # {}) =>
            /\ ~last'.ok
            /\ chunks' = chunks

\* C17: for every interleaving of two upsert_chunk calls (a lookup, then an
\* INSERT or UPDATE, without the host lock) the chunks table never holds two rows
\* with one content_hash: the INSERT of the call that lost the race fails on the
\* uniqueness constraint.
C17_InterleavedUpserts == [][InterleavedUpsert]_vars

\* C17 witness: a call whose lookup found no row has failed at its INSERT, the
\* other call having inserted the row of that hash in between.
C17_Witness ==
    /\ last.op = "upsert_chunk" /\ ~last.existing /\ ~last.ok
    /\ Cardinality(RowsWithHash(chunks, last.hash)) = 1
    /\ \E r \in chunks : r.content_hash = last.hash /\ r.project_path # last.project

----------------------------------------------------------------------------
(* Orchestrator: mod.rs, full processing of a project *)

\* The files the ignore-aware walker yields, in its order
ProjectWalk == <<"Cargo.toml", "a.rs", "test/config.json">>

\* The project directories: per path "missing", "unreadable" or the file's text
ProjectTrees ==
    {("Cargo.toml" :> "[package]") @@ ("a.rs" :> "fn a() {}") @@ ("test/config.json" :> "{}"),
     ("Cargo.toml" :> "[package]") @@ ("a.rs" :> "unreadable") @@ ("test/config.json" :> "missing")}

\* The per-file extractors in the order of the single pass
Extractors == <<"ast", "callgraph", "tests", "state_config", "project_metadata">>

InvocationsFilesFirst ==
    [i \in 1..(Len(ProjectWalk) * Len(Extractors)) |->
          <<Extractors[((i - 1) % Len(Extractors)) + 1],
            ProjectWalk[((i - 1) \div Len(Extractors)) + 1]>>]
    \o [i \in 1..Len(ProjectWalk) |-> <<"raw_source", ProjectWalk[i]>>]

\* ChunkingOptions::default(): every chunk type is enabled.
\* The invocations of one run: the raw-source pass over the walk, then every
\* per-file extractor on every file of the walk
Invocations ==
    [i \in 1..Len(ProjectWalk) |-> <<"raw_source", ProjectWalk[i]>>]
    \o [i \in 1..(Len(ProjectWalk) * Len(Extractors)) |->
          <<Extractors[((i - 1) % Len(Extractors)) + 1],
            ProjectWalk[((i - 1) \div Len(Extractors)) + 1]>>]

\* extract_function_calls: the identifiers followed by "(", keywords left out
FunctionCalls(content) ==
    CASE content = "fn a() {}" -> <<"a">>
      [] content = "fn b() {}" -> <<"b">>
      [] OTHER -> <<>>

\* What an extractor makes of one file before it stores anything: "skip" (Ok(0),
\* the file is not of its kind), "err" (Err), or the content and metadata of its chunk.
\*   raw_source: is_code_file (every extension of the walk is in the list), the text
\*   ast: detect_language(path)? ; the serialized tree
\*   callgraph: the imports (none in these files) and calls, as text
\*   tests: is_test_file (the path contains "test"); the test functions and expectations
\*   state_config: is_config_file (config.json); the text
\*   project_metadata: is_metadata_file (Cargo.toml); the text
Extract(kind, path, content) ==
    LET chunk(c, m) == [res |-> "chunk", content |-> c, metadata |-> m]
        skip == [res |-> "skip", content |-> NoText, metadata |-> NoText]
        calls == FunctionCalls(content)
    IN  CASE kind = "raw_source" -> chunk(content, NoText)
          [] kind = "ast" ->
                IF detect_language(path) = NoText
                   THEN [res |-> "err", content |-> NoText, metadata |-> NoText]
                   ELSE chunk(ast_repr(content), "{}")
          [] kind = "callgraph" ->
                chunk("# Dependencies (0)\n\n# Function Calls (" \o ToString(Len(calls))
                      \o ")\n" \o (IF calls = <<>> THEN "" ELSE "call: " \o calls[1] \o "\n"),
                      "{}")
          [] kind = "tests" ->
                IF path = "test/config.json"
                   THEN chunk("# Test File: " \o path
                              \o "\n# Test Functions: 0\n\n\n# Expectations: 0\n", NoText)
                   ELSE skip
          [] kind = "state_config" ->
                IF path = "test/config.json" THEN chunk(content, NoText) ELSE skip
          [] kind = "project_metadata" ->
                IF path = "Cargo.toml" THEN chunk(content, NoText) ELSE skip

\* One invocation <<kind, path>> of a run: the file is read, the extractor builds
\* its chunk and upserts it with no snapshot; Ok counts as created.  An Err is
\* written to the log (st.failed) and the run goes on.  `fault` is the invocation
\* whose upsert the database fails.
Invoke(st, project, inv, tree, now, fault) ==
    LET kind == inv[1]
        path == inv[2]
        e == Extract(kind, path, tree[path])
        u == Upserted(st, ChunkOf([project_path |-> project, chunk_type |-> kind,
                                   file_path |-> path, entity_name |-> NoText,
                                   content |-> e.content, metadata |-> e.metadata]),
                      NULL, now, IF fault = inv THEN st.upserts + 1 ELSE 0)
        logged_err == [st EXCEPT !.failed = @ \cup {inv}]
    IN  IF tree[path] = "missing" THEN st
        ELSE IF tree[path] = "unreadable"
           THEN IF kind = "raw_source" THEN logged_err ELSE st
        ELSE IF e.res = "skip" THEN st
        ELSE IF e.res = "err" THEN logged_err
        ELSE IF u.errors # st.errors THEN [logged_err EXCEPT !.upserts = u.upserts]
        ELSE [st EXCEPT !.rows = u.rows, !.nextId = u.nextId, !.upserts = u.upserts,
                        !.chunks_created = @ + 1]

RECURSIVE InvokeAll(_, _, _, _, _, _)
InvokeAll(st, project, invs, tree, now, fault) ==
    IF invs = <<>> THEN st
    ELSE InvokeAll(Invoke(st, project, Head(invs), tree, now, fault), project,
                   Tail(invs), tree, now, fault)

\* revwalk.push_head(): the commits reachable from HEAD, newest first
RECURSIVE History(_, _)
History(g, oid) ==
    IF oid = NoCommit THEN <<>> ELSE <<oid>> \o History(g, g.parent[oid])

CommitPass == <<"commit_history", "*">>
NoFault == <<"none", "*">>

KeepErrors(errors) == errors

\* Err(e) of the commit-history pass: errors.push(err_msg)
PushCommitError(errors) == Append(errors, "Failed to generate commit chunks")

\* generate_commit_chunks and its match in process_project: the pass fails when
\* the project has no repository, HEAD is unborn or an upsert fails (the first,
\* for `fault`); its error is pushed to errors.
CommitHistory(st, project, g, now, fault) ==
    LET err == [st EXCEPT !.failed = @ \cup {CommitPass},
                          !.errors = PushCommitError(@)]
        oids == History(g, HeadCommit(g))
        cs == [i \in DOMAIN oids |->
                 ChunkOf([project_path |-> project, chunk_type |-> "commit_history",
                          file_path |-> NoText, entity_name |-> oids[i],
                          content |-> "Commit: " \o oids[i] \o "\n", metadata |-> "{}"])]
        u == UpsertedAll(st, cs, NULL, now, 0)
    IN  IF ~g.exists \/ ~HeadBorn(g) \/ fault = CommitPass THEN err
        ELSE [u EXCEPT !.chunks_created = st.chunks_created + Len(cs), !.chunks_updated = 0]

\* process_project(project_path, options) -> Ok(ChunkingResult)
process_project(project, tree, fault) ==
    /\ clock < MaxReindexes
    /\ clock' = clock + 1
    /\ \E st1 \in {InvokeAll(Running(chunks, nextChunkId) @@ [failed |-> {}], project,
                              Invocations, tree, clock + 1, fault)} :
       \E st2 \in {CommitHistory(st1, project, git[project], clock + 1, fault)} :
           /\ chunks' = st2.rows
           /\ nextChunkId' = st2.nextId
           /\ last' = [op |-> "process_project", project |-> project, tree |-> tree,
                       ok |-> TRUE, failed |-> st2.failed, upserts |-> st2.upserts,
                       result |-> ResultOf(st2)]
    /\ UNCHANGED <<dbVars, ruleVars, relVars, errorVars, snapVars, envVars>>

\* The invocations of a run that come to an upsert, and so can take the fault
Storing(tree) ==
    {inv \in {Invocations[i] : i \in DOMAIN Invocations} :
        /\ tree[inv[2]] \notin {"missing", "unreadable"}
        /\ Extract(inv[1], inv[2], tree[inv[2]]).res = "chunk"}

ProcessProject ==
    \E tree \in ProjectTrees :
       \E fault \in {NoFault, CommitPass} \cup Storing(tree) :
          process_project(FaultProject, tree, fault)

\* The first master snapshot gives the project its repository, the root commit
\* and a commit after it
CommitOne == CreateMasterOne /\ ~git[FaultProject].exists

\* An incremental reindex of the project between the full runs
ReindexOne ==
    \E files \in {<<"a.rs">>, <<"a.rs", "c.txt">>}, fs \in FileSystems :
        /\ \A q \in WalkPaths \ Listed(files) : fs[q] = "missing"
        /\ reindex_changed_files(FaultProject, files, fs, 1, 0)

NextProcess == ProcessProject \/ CommitOne \/ ReindexOne
SpecProcess == InitFaults /\ [][NextProcess]_vars

\* The chunk of invocation inv over tree is in the table
Stored(rows, tree, inv) ==
    RowsWithHash(rows, calculate_content_hash(Extract(inv[1], inv[2], tree[inv[2]]).content)) # {}

\* C19: a run returned Ok and every invocation and pass that did not itself fail
\* was carried out: its chunk is in the table, and so is the chunk of every
\* commit of the history unless the commit-history pass failed.
RunCompleted ==
    /\ last.ok
    /\ \A inv \in Storing(last.tree) \ last.failed : Stored(chunks, last.tree, inv)
    /\ CommitPass \notin last.failed =>
          LET g == git[last.project]
              oids == History(g, HeadCommit(g))
          IN  \A i \in DOMAIN oids :
                 RowsWithHash(chunks, calculate_content_hash("Commit: " \o oids[i] \o "\n")) # {}

C18_HashOfContent ==
    \A r \in chunks :
        r.content_hash =
            Hex(Sha256(r.content),
                <<"0", "1", "2", "3", "4", "5", "6", "7", "8", "9", "a", "b", "c", "d", "e", "f">>)

\* C18 witness: the AST row, with hash b5142711, was stored by one run and
\* written again by a later one; rows of the commit and tests extractors are there.
C18_Witness ==
    /\ \E r \in chunks : /\ r.content = AstOfFunctionItem /\ r.content_hash = "b5142711"
                         /\ r.created_at < r.updated_at
    /\ \E r \in chunks : r.chunk_type = "commit_history"
    /\ \E r \in chunks : r.chunk_type = "tests"
    /\ last.op = "reindex"

----------------------------------------------------------------------------
(* Snapshot calls: error propagation *)

\* The steps of a create call that come before its commit
BeforeCommit == {"version", "index", "changed_files", "branch", "checkout", "commit"}

\* C20: a snapshot call in which a step fails returns an error, and none of the
\* steps after the failed one has run: no row is inserted or deleted, no commit
\* is made beyond the bootstrap commit when the failure is at or before the
\* commit, no tag is created when it is at or before the tag, and the repository
\* is as it was when the reset failed.
FailFast ==
    (last'.op \in {"create_master", "create_agent", "rewind"} /\ last'.fail # "none") =>
        /\ ~last'.ok
        /\ snapshots' = snapshots
        /\ last'.op = "rewind" => (last'.fail = "reset" => git' = git)
        /\ last'.op # "rewind" =>
              LET p == last'.project IN
              /\ last'.fail \in BeforeCommit =>
                    Commits(git'[p]) \subseteq Commits(ensure_git_initialized(p, git[p]))
              /\ last'.fail \in BeforeCommit \cup {"tag"} => git'[p].tags = git[p].tags
              /\ last'.fail = "branch" =>
                    git'[p].branches = ensure_git_initialized(p, git[p]).branches

\* C20: create_master_snapshot_with_git, create_agent_snapshot_with_git and
\* rewind_master_to_snapshot_with_git are fail-fast: when any step fails (version
\* query, changed-file discovery, index write, commit, tag, checkout, reset, row
\* insert or delete) the call returns that error and performs no later step.
C20_FailFast == [][FailFast]_vars

----------------------------------------------------------------------------
(* Error logging: what the caller receives *)

\* C21: error logging never raises to its caller: whichever statement of
\* log_error fails (the lookup, the UPDATE or the INSERT), the call returns
\* without an error.
C21_LogErrorNeverRaises == last.op = "log_error" => last.ok

----------------------------------------------------------------------------
(* Full processing: configuration and manifest files *)

\* The config and metadata invocations of a run whose extractor accepted the file
ConfigInvocations(tree) ==
    {inv \in Storing(tree) : inv[1] \in {"state_config", "project_metadata"}}

ConfigContentStored ==
    last'.op = "process_project" =>
        \A inv \in ConfigInvocations(last'.tree) \ last'.failed :
            LET text == last'.tree[inv[2]]
                before == RowsWithHash(chunks, calculate_content_hash(text))
                after == RowsWithHash(chunks', calculate_content_hash(text))
            IN  /\ Cardinality(after) = 1
                /\ \A r \in after :
                      /\ r.content = text
                      /\ IF before # {}
                            THEN \A b \in before : /\ r.id = b.id
                                                   /\ r.chunk_type = b.chunk_type
                                                   /\ r.file_path = b.file_path
                                                   /\ r.project_path = b.project_path
                            ELSE /\ r.project_path = last'.project
                                 /\ r.file_path = inv[2]
                                 /\ r.chunk_type =
                                       IF <<"raw_source", inv[2]>> \in last'.failed
                                          THEN inv[1] ELSE "raw_source"

----------------------------------------------------------------------------
(* The counters of a ChunkingResult *)

\* The upsert_chunk calls of the last orchestrator call that returned Err
FailedUpserts ==
    IF last'.op = "process_project"
       THEN Cardinality(last'.failed \cap Storing(last'.tree))
       ELSE Cardinality(UpsertErrors(last'.result))

\* The counters of the result against what the call did to the table
CountsUpserts ==
    last'.op \in {"process_project", "reindex"} =>
        /\ last'.result.chunks_created = Cardinality(chunks') - Cardinality(chunks)
        /\ last'.result.chunks_created + last'.result.chunks_updated =
              last'.upserts - FailedUpserts

\* C23: in every ChunkingResult chunks_created is the number of upserts that
\* inserted a row and chunks_updated the number of upserts that hit an existing
\* content_hash: a second ingest of an unchanged file, by process_project or by
\* reindex_changed_files, adds no row and is counted in chunks_updated only.
C23_CountsUpserts == [][CountsUpserts]_vars

----------------------------------------------------------------------------
(* Whole-project purge: storage.rs *)

AllChunks(rows, project_path) == rows

\* DELETE FROM chunks WHERE project_path = ?1: the rows the statement removes
ProjectChunks(rows, project_path) == {r \in rows : r.project_path = project_path}

\* FOREIGN KEY (from_chunk_id) / (to_chunk_id) REFERENCES chunks(id) ON DELETE CASCADE.
\* The code never sets PRAGMA foreign_keys: the clauses act where the SQLite
\* build enforces them by default.
OnDeleteCascade(rels, deleted, enforced) ==
    IF enforced
       THEN {x \in rels : /\ x.from_chunk_id \notin {d.id : d \in deleted}
                          /\ x.to_chunk_id \notin {d.id : d \in deleted}}
       ELSE rels

\* delete_project_chunks(conn, project_path) -> Ok(count)
delete_project_chunks(project_path) ==
    \E gone \in {ProjectChunks(chunks, project_path)} :
        /\ chunks' = chunks \ gone
        /\ chunk_relationships' = OnDeleteCascade(chunk_relationships, gone, foreignKeys)
        /\ last' = [op |-> "delete_project_chunks", project |-> project_path,
                    ok |-> TRUE, count |-> Cardinality(gone)]
        /\ UNCHANGED <<dbVars, ruleVars, nextChunkId, nextRelationshipId, errorVars, snapVars, envVars, clock>>

DeleteProjectChunks == \E p \in Projects : delete_project_chunks(p)

\* A chunk of the other project, stored between the runs
UpsertOne ==
    /\ clock < MaxReindexes
    /\ \E c \in ChunkInputs :
          /\ c.project_path # FaultProject /\ c.chunk_type = "raw_source"
          /\ c.file_path = "b.rs" /\ c.metadata = NoText
          /\ upsert_chunk(ChunkOf(c), NULL)

NextPurge ==
    \/ ProcessProject \/ ReindexOne \/ UpsertOne \/ DeleteProjectChunks
    \/ CommitOne \/ RewindOne
SpecPurge == InitStores /\ [][NextPurge]_vars

ChunkIds(rows) == {r.id : r \in rows}

\* What one call does to the set of chunk rows
PurgeOnly ==
    IF last'.op = "delete_project_chunks"
       THEN /\ last'.ok
            /\ chunks' = {r \in chunks : r.project_path # last'.project}
            /\ last'.count = Cardinality({r \in chunks : r.project_path = last'.project})
       ELSE ChunkIds(chunks) \subseteq ChunkIds(chunks')

\* C24: no operation other than delete_project_chunks removes a chunk row:
\* upsert_chunk, process_project, reindex_changed_files (also for listed files
\* that no longer exist), snapshot creation and rewind never take a row away;
\* delete_project_chunks(P) removes exactly the rows with project_path = P,
\* returns their number and leaves the rows of other projects as they were.
C24_PurgeOnly == [][PurgeOnly]_vars

\* C24 witness: a purge removed several rows of p1 and left a row of p2, and
\* rows had been removed before it (an id below the counter is in no row of p1).
C24_Witness ==
    /\ last.op = "delete_project_chunks" /\ last.project = "p1" /\ last.count >= 2
    /\ \E r \in chunks : r.project_path = "p2"
    /\ \A r \in chunks : r.project_path # "p1"
    /\ git["p1"].exists

----------------------------------------------------------------------------
(* Relationships between chunks: storage.rs *)

MaxRelationships == 2    \* insert_relationship calls that insert a row

\* The chunk ids a caller passes to insert_relationship
ChunkIdArgs == 1..2
RelationshipTypes == {"calls"}

\* FOREIGN KEY (..) REFERENCES chunks(id): does the INSERT break the constraint?
ForeignKeyViolation(rows, rel, enforced) ==
    enforced /\ ~({rel.from_chunk_id, rel.to_chunk_id} \subseteq ChunkIds(rows))

\* insert_relationship(conn, rel) -> Result<i64>; created_at is the time of the call
insert_relationship(rel) ==
    /\ nextRelationshipId <= MaxRelationships
    /\ IF ForeignKeyViolation(chunks, rel, foreignKeys)
          THEN /\ UNCHANGED relVars
               /\ last' = [op |-> "insert_relationship", rel |-> rel, ok |-> FALSE, id |-> NULL]
          ELSE /\ chunk_relationships' =
                     chunk_relationships \cup
                       {[id |-> nextRelationshipId,
                         from_chunk_id |-> rel.from_chunk_id,
                         to_chunk_id |-> rel.to_chunk_id,
                         relationship_type |-> rel.relationship_type,
                         created_at |-> clock]}
               /\ nextRelationshipId' = nextRelationshipId + 1
               /\ last' = [op |-> "insert_relationship", rel |-> rel, ok |-> TRUE,
                           id |-> nextRelationshipId]
    /\ UNCHANGED <<dbVars, ruleVars, chunkVars, errorVars, snapVars, envVars, clock>>

InsertRelationship ==
    \E f \in ChunkIdArgs, t \in ChunkIdArgs, ty \in RelationshipTypes :
        insert_relationship([from_chunk_id |-> f, to_chunk_id |-> t,
                             relationship_type |-> ty])

\* The raw-source chunk of a file of either project
UpsertRaw ==
    /\ clock < MaxReindexes
    /\ \E c \in ChunkInputs :
        /\ c.chunk_type = "raw_source" /\ c.file_path = "a.rs" /\ c.metadata = NoText
        /\ upsert_chunk(ChunkOf(c), NULL)

NextRelationships == UpsertRaw \/ InsertRelationship \/ DeleteProjectChunks
\* Either SQLite build: foreign keys enforced by default, or not
InitRelationships == Init /\ defaultBranch = "main"
SpecRelationships == InitRelationships /\ [][NextRelationships]_vars

\* C25: in every reachable state each chunk_relationships row refers to two
\* existing chunk rows: the relationships of a chunk that delete_project_chunks
\* removes go with it.
C25_RelationshipsResolve ==
    \A x \in chunk_relationships :
        {x.from_chunk_id, x.to_chunk_id} \subseteq ChunkIds(chunks)

----------------------------------------------------------------------------
(* Business rules: business_rules.rs, storage.rs *)

EntityNames == {"checkout"}
Interpretations == {"i1"}
Descriptions == {"d1", "d2"}
Corrections == {NoText, "c1"}

\* INSERT INTO business_rules (..) VALUES (..) ON CONFLICT(rowid) DO UPDATE ..:
\* the statement names no id, so the row always gets a new one
upsert_business_rule(rule) ==
    /\ clock < MaxClock
    /\ clock' = clock + 1
    /\ business_rules' =
          business_rules \cup
            {[id |-> nextRuleId,
              project_path |-> rule.project_path,
              entity_name |-> rule.entity_name,
              file_path |-> rule.file_path,
              rule_description |-> rule.rule_description,
              ai_interpretation |-> rule.ai_interpretation,
              user_correction |-> rule.user_correction,
              is_validated |-> rule.is_validated,
              validation_date |-> rule.validation_date,
              created_at |-> clock',
              updated_at |-> clock']}
    /\ nextRuleId' = nextRuleId + 1
    /\ last' = [op |-> "propose_business_rule", project |-> rule.project_path,
                ok |-> TRUE, id |-> nextRuleId]

\* propose_business_rule(conn, project_path, entity_name, file_path, ai_interpretation)
propose_business_rule(project_path, entity_name, file_path, ai_interpretation) ==
    upsert_business_rule([project_path |-> project_path, entity_name |-> entity_name,
                          file_path |-> file_path, rule_description |-> "",
                          ai_interpretation |-> ai_interpretation,
                          user_correction |-> NoText, is_validated |-> FALSE,
                          validation_date |-> NULL])

ProposeBusinessRule ==
    /\ \E p \in Projects, e \in EntityNames, f \in ErrorFiles, i \in Interpretations :
          propose_business_rule(p, e, f, i)
    /\ UNCHANGED <<dbVars, chunkVars, relVars, errorVars, snapVars, envVars>>

MarkValidatedWithoutDate(rows, rule_id, rule_description, user_correction, now) ==
    {IF r.id = rule_id
        THEN [r EXCEPT !.rule_description = rule_description,
                       !.user_correction = user_correction,
                       !.is_validated = TRUE, !.updated_at = now]
        ELSE r : r \in rows}

\* UPDATE business_rules SET rule_description = ?1, user_correction = ?2,
\*   is_validated = 1, validation_date = ?3, updated_at = ?4 WHERE id = ?5
MarkValidated(rows, rule_id, rule_description, user_correction, now) ==
    {IF r.id = rule_id
        THEN [r EXCEPT !.rule_description = rule_description,
                       !.user_correction = user_correction,
                       !.is_validated = TRUE, !.validation_date = now,
                       !.updated_at = now]
        ELSE r : r \in rows}

\* validate_business_rule(conn, rule_id, rule_description, user_correction) -> Ok(())
validate_business_rule(rule_id, rule_description, user_correction) ==
    /\ clock < MaxClock
    /\ clock' = clock + 1
    /\ business_rules' =
          MarkValidated(business_rules, rule_id, rule_description, user_correction, clock')
    /\ nextRuleId' = nextRuleId
    /\ last' = [op |-> "validate_business_rule", id |-> rule_id, ok |-> TRUE]

ValidateBusinessRule ==
    /\ \E id \in 1..nextRuleId, d \in Descriptions, c \in Corrections :
          validate_business_rule(id, d, c)
    /\ UNCHANGED <<dbVars, chunkVars, relVars, errorVars, snapVars, envVars>>

\* get_pending_rules(conn, project_path); the rows, without their order
get_pending_rules(rows, project_path) ==
    {r \in rows : r.project_path = project_path /\ r.is_validated = FALSE}

NextRules == ProposeBusinessRule \/ ValidateBusinessRule
SpecRules == InitStores /\ [][NextRules]_vars

\* What a propose or validate call does to the rules, and what every state
\* reached by it satisfies
RuleLifecycle ==
    /\ last'.op = "propose_business_rule" =>
          \E r \in business_rules' \ business_rules :
              /\ r.id = last'.id /\ r.project_path = last'.project
              /\ r.rule_description = "" /\ ~r.is_validated /\ r.validation_date = NULL
              /\ r \in get_pending_rules(business_rules', last'.project)
    /\ last'.op = "validate_business_rule" =>
          \A r \in business_rules' :
              r.id = last'.id =>
                 /\ r.is_validated /\ r.validation_date # NULL
                 /\ r \notin get_pending_rules(business_rules', r.project_path)
    /\ \A r \in business_rules :
          r.is_validated => \E q \in business_rules' : q.id = r.id /\ q.is_validated
    /\ \A r \in business_rules' : r.is_validated => r.validation_date # NULL

\* C26: a rule created by propose_business_rule has an empty rule_description,
\* is_validated = false and no validation_date and is in get_pending_rules of
\* its project; after validate_business_rule(id, ..) it is validated, has a
\* validation_date and is no longer pending; no call moves a validated rule
\* back to pending, and is_validated implies that validation_date is set.
C26_RuleLifecycle == [][RuleLifecycle]_vars

\* C26 witness: one rule of a project was proposed and validated with a user
\* correction, and a rule proposed after it for the same project is pending.
C26_Witness ==
    /\ last.op = "validate_business_rule"
    /\ \E r \in business_rules, q \in business_rules :
          /\ r.id = last.id /\ r.is_validated /\ r.user_correction = "c1"
          /\ r.rule_description = "d1" /\ r.validation_date > r.created_at
          /\ q.project_path = r.project_path /\ q.id > r.id
          /\ q \in get_pending_rules(business_rules, r.project_path)

----------------------------------------------------------------------------
(* Database bootstrap: idempotence *)

\* The rows of table t of db, cut to the given columns
RowsCut(db, t, columns) ==
    {[c \in columns |-> r[c]] : r \in db.tables[t].rows}

\* What one run of init_chunk_database returns and leaves
InitIdempotent ==
    last'.op = "init_chunk_database" =>
        /\ last'.ok
        /\ DOMAIN database'.tables =
              {"chunks", "chunk_relationships", "business_rules", "snapshots", "error_logs"}
        /\ database'.tables["snapshots"].columns = SnapshotColumns
        /\ database'.tables["chunks"].columns = ChunkColumns \cup {"snapshot_id"}
        /\ {"idx_chunks_snapshot", "idx_snapshots_version"} \subseteq database'.indexes
        /\ \A t \in DOMAIN database.tables :
              RowsCut(database', t, database.tables[t].columns) =
                 RowsCut(database, t, database.tables[t].columns)
        /\ last'.repeated => database' = database

\* C27: init_chunk_database is idempotent: it succeeds on a new database, on an
\* initialized one and on one written before the Git columns and snapshot_id
\* existed (the failing add-column statements are ignored), the schema is
\* complete after it, and a repeated run leaves every row of every table as it was.
C27_InitIdempotent == [][InitIdempotent]_vars

\* C27 witness: the run was repeated on a database that came with git_tag but
\* not version_major; its snapshot row kept the old tag and got version 1.
C27_Witness ==
    /\ last.op = "init_chunk_database" /\ last.ok /\ last.repeated
    /\ \E r \in database.tables["snapshots"].rows :
          /\ r["git_tag"] = OldValue /\ r["version_major"] = "1"
          /\ r["git_branch"] = NoText
    /\ \E r \in database.tables["chunks"].rows : r["snapshot_id"] = NoText

----------------------------------------------------------------------------
(* Agent snapshots: what the agent commit records *)

\* The tree of the commit a snapshot row names
TreeOf(g, row) == g.tree[row.git_commit_hash]

\* A successful create_agent_snapshot_with_git whose call started on a working
\* copy that differed from the master commit committed that working copy
AgentCommitsWorkingCopy ==
    (last'.op = "create_agent" /\ last'.ok) =>
        \A row \in SnapshotById(snapshots', last'.id) :
        \A master \in SnapshotById(snapshots, last'.arg) :
            LET p == last'.project
                before == git[p].wc
            IN  before # TreeOf(git[p], master) =>
                    /\ TreeOf(git'[p], row) = before
                    /\ TreeOf(git'[p], row) # TreeOf(git'[p], master)

\* C28: the commit of create_agent_snapshot_with_git records the working copy of
\* the time of the call: when the tracked files differ from the master commit at
\* the start, the agent commit's tree holds the modified content and so differs
\* from the master commit's tree.
C28_AgentCommitsWorkingCopy == [][AgentCommitsWorkingCopy]_vars

----------------------------------------------------------------------------
(* Master snapshots: the tag of the next version *)

\* C29: in every state reached by successful create-master, create-agent and
\* rewind calls the tag v{next master version} is not in the repository, so the
\* tag step of create_master_snapshot_with_git cannot collide, also after a rewind.
C29_NextTagFree ==
    \A p \in Projects :
        MasterTag(get_next_master_version(snapshots, p, FALSE)) \notin DOMAIN git[p].tags

----------------------------------------------------------------------------
(* Snapshot calls: a failed call and the calls after it *)

\* The call before this one was a creation that failed at an injected step
AfterFailedCreation ==
    /\ last.op \in {"create_master", "create_agent"}
    /\ ~last.ok /\ last.fail # "none"

\* This call is a creation in which nothing fails from outside, for the same
\* project; an agent call names a master snapshot row of the project
CleanCreation ==
    /\ last'.op \in {"create_master", "create_agent"}
    /\ last'.fail = "none" /\ last'.project = last.project
    /\ last'.op = "create_agent" =>
          \E m \in RowsOf(snapshots, last'.project, "master") : m.id = last'.arg

NotBlocked == (AfterFailedCreation /\ CleanCreation) => last'.ok

\* C30: a creation that failed part-way (after its branch, commit or tag, before
\* its row) does not block later calls: the next create_master_snapshot_with_git
\* or create_agent_snapshot_with_git for the project, with no further failure,
\* succeeds.
C30_NotBlocked == [][NotBlocked]_vars

----------------------------------------------------------------------------
(* Master snapshots: the branch of the commit *)

\* A successful create_master_snapshot_with_git moved main to its commit, whose
\* parent is the tip main had when the commit was made
MasterCommitsOnMain ==
    (last'.op = "create_master" /\ last'.ok) =>
        \A row \in SnapshotById(snapshots', last'.id) :
            LET p == last'.project
                before == ensure_git_initialized(p, git[p])
                main == BranchRef("main")
            IN  /\ row.git_branch = "main"
                /\ main \in DOMAIN before.branches
                /\ main \in DOMAIN git'[p].branches
                /\ git'[p].branches[main] = row.git_commit_hash
                /\ git'[p].parent[row.git_commit_hash] = before.branches[main]

\* C31: every commit of create_master_snapshot_with_git is made on main: after a
\* successful call refs/heads/main points to the new commit and the commit's
\* parent is the previous tip of main, also in states an agent call that
\* returned an error left behind; the row's git_branch = main is true.
C31_MasterCommitsOnMain == [][MasterCommitsOnMain]_vars

----------------------------------------------------------------------------
(* Agent snapshots: the parent row *)

\* The rows master_snapshot_id may name for project p: its master snapshots
MastersOf(rows, p) == RowsOf(rows, p, "master")

\* A create_agent_snapshot_with_git whose master_snapshot_id names a row that is
\* not a master snapshot of project_path returns an error and writes nothing
AgentParentChecked ==
    (/\ last'.op = "create_agent"
     /\ SnapshotById(snapshots, last'.arg) # {}
     /\ SnapshotById(snapshots, last'.arg) \cap MastersOf(snapshots, last'.project) = {})
    => LET p == last'.project
           before == ensure_git_initialized(p, git[p])
       IN  /\ ~last'.ok
           /\ snapshots' = snapshots
           /\ Commits(git'[p]) = Commits(before)
           /\ git'[p].branches = before.branches
           /\ git'[p].tags = before.tags

\* C32: the parent_snapshot_id of an agent row names, when the row is created, a
\* master snapshot row of the same project: create_agent_snapshot_with_git with a
\* master_snapshot_id that names an agent snapshot or a snapshot of another
\* project returns an error and creates no branch, commit, tag or row.
C32_AgentParentChecked == [][AgentParentChecked]_vars

----------------------------------------------------------------------------
(* Snapshot-triggered reindex: what a linked chunk holds *)

\* The raw_source rows that carry a snapshot id
LinkedRawSource == {r \in chunks : r.chunk_type = "raw_source" /\ r.snapshot_id # NULL}

\* C33: a raw_source chunk linked to snapshot s by the snapshot-triggered reindex
\* holds the content its file has in the Git commit of s, for agent snapshots
\* (reindexed after HEAD returned to main) as for master snapshots, and after
\* later snapshots re-ingested the same content.
C33_LinkedContentIsCommitted ==
    \A r \in LinkedRawSource :
    \A s \in SnapshotById(snapshots, r.snapshot_id) :
        r.content = TextOf(git[s.project_path].tree[s.git_commit_hash])

\* C34: the non-null snapshot_id of every chunk row names an existing snapshot
\* row; after a rewind deleted master snapshot rows no chunk row carries the id
\* of a deleted snapshot.
C34_SnapshotIdResolves ==
    \A r \in chunks :
        r.snapshot_id # NULL => SnapshotById(snapshots, r.snapshot_id) # {}

----------------------------------------------------------------------------
(* Full runs: the raw-source chunks a query finds *)

\* query_chunks with project_path and one chunk type set: the rows the SELECT
\* returns (their order, updated_at DESC, is left out)
query_chunks(rows, project_path, chunk_type) ==
    {r \in rows : r.project_path = project_path /\ r.chunk_type = chunk_type}

\* The files of the walk the raw-source pass accepted, read and upserted
AcceptedFiles(tree, failed) ==
    {inv[2] : inv \in {x \in Storing(tree) \ failed : x[1] = "raw_source"}}

\* C35: after process_project(P) completed without errors, query_chunks by
\* project P and type raw_source returns for every accepted file a chunk with
\* that file_path and the file's text, also when a file with the same content,
\* of P or of another project, was ingested earlier.
C35_RawSourceFound ==
    (last.op = "process_project" /\ last.result.errors = <<>>) =>
        \A f \in AcceptedFiles(last.tree, last.failed) :
            \E r \in query_chunks(chunks, last.project, "raw_source") :
                r.file_path = f /\ r.content = last.tree[f]

----------------------------------------------------------------------------
(* The call-graph extractor: callgraph.rs *)

\* A Rust source text, as the matches the two regular expressions find in it, in
\* the order of the text: "use" for `use\s+([a-zA-Z0-9_:]+)`, "call" for
\* `([a-zA-Z_][a-zA-Z0-9_]*)\s*\(`, each with its capture group 1
Use(name) == [kind |-> "use", name |-> name]
Paren(name) == [kind |-> "call", name |-> name]

\* "use b;\nuse a;\nuse b;\nf();\nif (x) { g(); }\nf();" and "use a;\nh();"
CallgraphSources ==
    { <<Use("b"), Use("a"), Use("b"), Paren("f"), Paren("if"), Paren("g"), Paren("f")>>,
      <<Use("a"), Paren("h")>> }

\* re.captures_iter(content): the captures of one expression, in order
RECURSIVE Captures(_, _)
Captures(content, kind) ==
    IF content = <<>> THEN <<>>
    ELSE (IF Head(content).kind = kind THEN <<Head(content).name>> ELSE <<>>)
         \o Captures(Tail(content), kind)

\* is_keyword(word, "rust")
is_keyword(word) ==
    word \in {"if", "else", "while", "for", "loop", "match", "return", "break", "continue"}

\* HashSet::insert of every element of a sequence
Inserted(seq) == {seq[i] : i \in DOMAIN seq}

\* The position of a name in the order of Vec::sort on Strings
Rank(name) ==
    CASE name = "a" -> 1 [] name = "b" -> 2 [] name = "f" -> 3
      [] name = "g" -> 4 [] name = "h" -> 5

SortedOrders(set) ==
    {seq \in [1..Cardinality(set) -> set] :
        \A i, j \in DOMAIN seq : i < j => Rank(seq[i]) < Rank(seq[j])}

\* set.into_iter().collect(): every element once; the order is that of the
\* HashSet's table, whose hasher is seeded anew for every set
IterationOrders(set) ==
    {seq \in [1..Cardinality(set) -> set] :
        \A i, j \in DOMAIN seq : i # j => seq[i] # seq[j]}

\* extract_dependencies(content, "rust"): the vectors it can return
extract_dependencies(content) == IterationOrders(Inserted(Captures(content, "use")))

\* extract_function_calls(content, "rust"): the vectors it can return
extract_function_calls(content) ==
    IterationOrders({w \in Inserted(Captures(content, "call")) : ~is_keyword(w)})

\* for x in &list { push_str(&format!("{prefix}{x}\n")) }
RECURSIVE Lines(_, _)
Lines(prefix, list) ==
    IF list = <<>> THEN "" ELSE prefix \o Head(list) \o "\n" \o Lines(prefix, Tail(list))

\* callgraph_repr
CallgraphRepr(dependencies, function_calls) ==
    "# Dependencies (" \o ToString(Len(dependencies)) \o ")\n"
    \o Lines("import: ", dependencies)
    \o "\n# Function Calls (" \o ToString(Len(function_calls)) \o ")\n"
    \o Lines("call: ", function_calls)

\* CallgraphMetadata
CallgraphMetadataOf(dependencies, function_calls) ==
    [is_static |-> TRUE, entry_points |-> <<>>, external_calls |-> dependencies,
     call_count |-> Len(function_calls)]

\* serde_json::to_string(&metadata), the lists by their length
MetadataJson(metadata) ==
    "{is_static:true,entry_points:0,external_calls:"
    \o Lines("", metadata.external_calls) \o ",call_count:"
    \o ToString(metadata.call_count) \o "}"

\* generate_callgraph_chunks(conn, project_path, file_path, content), with the
\* vectors the two extractions returned
generate_callgraph_chunks(project_path, file_path, content, dependencies, function_calls) ==
    LET metadata == CallgraphMetadataOf(dependencies, function_calls)
        chunk == ChunkOf([project_path |-> project_path, chunk_type |-> "callgraph",
                          file_path |-> file_path, entity_name |-> NoText,
                          content |-> CallgraphRepr(dependencies, function_calls),
                          metadata |-> MetadataJson(metadata)])
        existing == UpsertExisting(chunks, chunk)
    IN  /\ clock < MaxClock
        /\ clock' = clock + 1
        /\ chunks' = IF existing THEN UpdateChunkRows(chunks, chunk, NULL, clock')
                                 ELSE InsertChunkRow(chunks, nextChunkId, chunk, NULL, clock')
        /\ nextChunkId' = IF existing THEN nextChunkId ELSE nextChunkId + 1
        /\ last' = [op |-> "generate_callgraph", project |-> project_path,
                    file |-> file_path, source |-> content, ok |-> TRUE,
                    created |-> ~existing, content |-> chunk.content,
                    hash |-> chunk.content_hash, metadata |-> metadata,
                    dependencies |-> dependencies, function_calls |-> function_calls]
        /\ UNCHANGED <<dbVars, ruleVars, relVars, errorVars, snapVars, envVars>>

GenerateCallgraph ==
    \E content \in CallgraphSources :
    \E dependencies \in extract_dependencies(content),
       function_calls \in extract_function_calls(content) :
        generate_callgraph_chunks(FaultProject, "a.rs", content, dependencies, function_calls)

NextCallgraph == GenerateCallgraph
SpecCallgraph == InitStores /\ [][NextCallgraph]_vars

\* Two runs in a row over the same file path and file content gave the same
\* chunk, and the second added no row
SameChunkAgain ==
    (/\ last.op = "generate_callgraph" /\ last'.op = "generate_callgraph"
     /\ last'.project = last.project /\ last'.file = last.file
     /\ last'.source = last.source)
    => /\ last'.content = last.content
       /\ last'.hash = last.hash
       /\ ~last'.created
       /\ Cardinality(chunks') = Cardinality(chunks)

\* C37: generating the call-graph chunk twice for the same file path and file
\* content yields the same content and content_hash, so re-ingesting an unchanged
\* file is deduplicated to one callgraph row and adds no row per run.
C37_SameChunkAgain == [][SameChunkAgain]_vars

\* C38: the import list and the call list hold every extracted name once
\* (no duplicate, none missing), metadata.external_calls is the import list in
\* sorted order and metadata.call_count is the number of distinct call identifiers.
C38_CallgraphLists ==
    last.op = "generate_callgraph" =>
        LET imports == Inserted(Captures(last.source, "use"))
            calls == {w \in Inserted(Captures(last.source, "call")) : ~is_keyword(w)}
        IN  /\ Inserted(last.dependencies) = imports
            /\ Len(last.dependencies) = Cardinality(imports)
            /\ Inserted(last.function_calls) = calls
            /\ Len(last.function_calls) = Cardinality(calls)
            /\ last.metadata.external_calls \in SortedOrders(imports)
            /\ last.metadata.call_count = Cardinality(calls)

----------------------------------------------------------------------------
(* Incremental reindex: the paths of the list *)

\* The upsert_chunk calls a path of the list leads to: none for a path that is
\* missing or unreadable, the raw-source chunk and the AST chunk of a file with grammar
UpsertsFor(file_path, fs) ==
    IF fs[file_path] \notin FileContents THEN 0
    ELSE IF detect_language(file_path) = NoText THEN 1 ELSE 2

RECURSIVE UpsertsForAll(_, _)
UpsertsForAll(files, fs) ==
    IF files = <<>> THEN 0 ELSE UpsertsFor(Head(files), fs) + UpsertsForAll(Tail(files), fs)

\* The read errors of a list, in its order
RECURSIVE ReadErrors(_, _)
ReadErrors(files, fs) ==
    IF files = <<>> THEN <<>>
    ELSE (IF fs[Head(files)] = "unreadable" THEN <<ReadError(Head(files))>> ELSE <<>>)
         \o ReadErrors(Tail(files), fs)

IsReadError(e) == e # UpsertError

\* What one reindex_changed_files call did with the paths of its list
EveryPathHandled ==
    last'.op = "reindex" =>
        /\ last'.ok
        /\ last'.upserts = UpsertsForAll(last'.files, last'.fs)
        /\ SelectSeq(last'.result.errors, IsReadError) = ReadErrors(last'.files, last'.fs)
        /\ Cardinality(UpsertErrors(last'.result)) <= last'.upserts
        /\ \A q \in ReadableListed(last'.files, last'.fs) :
              \/ RowsWithHash(chunks', calculate_content_hash(last'.fs[q])) # {}
              \/ UpsertErrors(last'.result) # {}
        /\ (\A q \in Listed(last'.files) : last'.fs[q] = "missing") =>
              /\ chunks' = chunks /\ nextChunkId' = nextChunkId
              /\ last'.result.errors = <<>>

\* C39: reindex_changed_files skips every listed path that no longer exists
\* without writing a chunk or recording an error, records an error and goes on
\* for a path that cannot be read or whose upsert fails, and always processes all
\* remaining paths and returns Ok with those errors in the result.
C39_EveryPathHandled == [][EveryPathHandled]_vars

\* C39 witness: a.rs could not be read, the error is in the result, and c.txt,
\* listed after it, was read and stored by the same call.
C39_Witness ==
    /\ last.op = "reindex" /\ last.ok /\ last.files = <<"a.rs", "c.txt">>
    /\ last.fs["a.rs"] = "unreadable"
    /\ last.result.errors = <<ReadError("a.rs")>>
    /\ \E r \in chunks : r.file_path = "c.txt" /\ r.created_at = clock

----------------------------------------------------------------------------
(* Business rules: insert or update *)

\* Two rows are of the same rule: same project, entity and file
SameRule(r, q) ==
    /\ r.project_path = q.project_path
    /\ r.entity_name = q.entity_name
    /\ r.file_path = q.file_path

\* The row upsert_business_rule returned the id of
ReturnedRule(rows, id) == {r \in rows : r.id = id}

\* A call of upsert_business_rule for a rule that had a row updated that row
\* and added none
UpdatesExistingRule ==
    (/\ last'.op = "propose_business_rule"
     /\ \E r \in ReturnedRule(business_rules', last'.id), q \in business_rules :
           SameRule(r, q))
    => /\ Cardinality(business_rules') = Cardinality(business_rules)
       /\ {r.id : r \in business_rules'} = {r.id : r \in business_rules}
       /\ \E q \in business_rules : q.id = last'.id

\* C40: upsert_business_rule inserts or updates: for a rule that has a row it
\* updates that row (rule_description, ai_interpretation, user_correction,
\* is_validated, validation_date, updated_at) and adds none; only a rule without
\* a row is inserted, so repeating the call for a rule does not grow the table.
C40_UpdatesExistingRule == [][UpdatesExistingRule]_vars

----------------------------------------------------------------------------
(* Agent snapshots: the fork *)

\* The commit of every agent row has the commit of the row its
\* parent_snapshot_id names as its parent
AgentParents ==
    \A r \in snapshots :
        r.snapshot_type = "agent" =>
            \A m \in SnapshotById(snapshots, r.parent_snapshot_id) :
                /\ r.git_commit_hash \in Commits(git[r.project_path])
                /\ git[r.project_path].parent[r.git_commit_hash] = m.git_commit_hash

\* A successful create_agent_snapshot_with_git made a new branch agent/v{M}.{A},
\* left it on a new commit whose parent is the commit of the row it was given,
\* and did not move main; nor does a call that returned an error move main
AgentForks ==
    last'.op = "create_agent" =>
        LET p == last'.project
            main == BranchRef("main")
        IN  /\ main \in DOMAIN git[p].branches =>
                  /\ main \in DOMAIN git'[p].branches
                  /\ git'[p].branches[main] = git[p].branches[main]
            /\ last'.ok =>
                  \A row \in SnapshotById(snapshots', last'.id) :
                  \A m \in SnapshotById(snapshots, last'.arg) :
                      LET ref == BranchRef(AgentBranch(row.version_major, row.version_minor))
                      IN  /\ row.parent_snapshot_id = m.id
                          /\ row.git_branch = AgentBranch(row.version_major, row.version_minor)
                          /\ row.git_commit_hash \notin Commits(git[p])
                          /\ git'[p].parent[row.git_commit_hash] = m.git_commit_hash
                          /\ ref \notin DOMAIN git[p].branches
                          /\ ref \in DOMAIN git'[p].branches
                          /\ git'[p].branches[ref] = row.git_commit_hash

\* C36: the commit of every agent snapshot has exactly one parent, the
\* git_commit_hash of the row its parent_snapshot_id names; its branch
\* agent/v{M}.{A} was created at that commit and points to the agent commit after
\* the call, and main is not moved by agent creation.
C36_AgentForks == []AgentParents /\ [][AgentForks]_vars

\* C36 witness: an agent snapshot forked from a master that is no longer the tip
\* of main: its commit's parent is the older master commit, its branch points to
\* it, and main stays on the later master.
C36_Witness ==
    /\ last.op = "create_agent" /\ last.ok
    /\ \E r \in SnapshotById(snapshots, last.id), m \in SnapshotById(snapshots, last.arg) :
          LET g == git[last.project]
          IN  /\ m.snapshot_type = "master"
              /\ g.parent[r.git_commit_hash] = m.git_commit_hash
              /\ g.branches[BranchRef("main")] # m.git_commit_hash
              /\ g.branches[BranchRef("main")] # r.git_commit_hash
              /\ g.branches[BranchRef(r.git_branch)] = r.git_commit_hash
              /\ g.head = BranchRef("main")

====
